---- MODULE Spec2Model ----
(***************************************************************************)
(* Model of the wallpaper image cache (imageCache.js, main.js).            *)
(*                                                                         *)
(* The cache directory holds one file per downloaded URL, named by the     *)
(* MD5 of the URL, and metadata.json, a map from URL to a cache entry.     *)
(* downloadImage streams an HTTP response into the fingerprinted file;     *)
(* batchDownload drives downloadImage over a list, one item at a time.     *)
(* Several IPC handlers may be in flight at once, so the steps of one      *)
(* download interleave with the synchronous operations of other handlers.  *)
(***************************************************************************)
EXTENDS Integers, Sequences, FiniteSets, TLC

(***************************************************************************)
(* Bounds of the model.                                                    *)
(***************************************************************************)
MaxBody == 2        \* largest response body, in chunks
MaxBatch == 3       \* longest list handed to batchDownload
MaxSecs == 2        \* one-second clock steps taken in a run
MaxJumps == 1       \* (7 days - 1 second) clock steps taken in a run

(***************************************************************************)
(* Program constants.                                                      *)
(***************************************************************************)
MsPerDay == 1000 * 60 * 60 * 24
ExpiryDays == 7
BatchDelayMs == 1000
MaxRetries == 2
RetryDelayMs == 2000
SecondMs == 1000
ExpiryMs == ExpiryDays * MsPerDay
JumpMs == ExpiryMs - SecondMs

URLs == {"u1", "u2"}
BatchCall == "batch"     \* the downloadImage call awaited by batchDownload
DirectCall == "direct"   \* a downloadImage call awaited by another handler
Calls == {BatchCall, DirectCall}

NoFile == [size |-> -1, writers |-> {}]
NoEntry == [none |-> TRUE]
NoTime == -1
InvalidTime == -2
NoRet == [op |-> "none"]
EmptyFileMessage == <<"Downloaded file is empty">>
RequestMessage == <<"request failed">>
StreamMessage == <<"stream error">>
WriteMessage == <<"write error">>

VARIABLES
    now,        \* wall clock, milliseconds
    file,       \* cache directory: path -> NoFile or [size, writers]
    meta,       \* content of metadata.json: url -> entry or NoEntry, or Unparsable
    call,       \* downloadImage invocations, by slot
    batch,      \* the batchDownload invocation
    windowOpen, \* mainWindow is not null
    ret,        \* what the step just taken returned or settled, NoRet if nothing
    lastTransfer, \* history: url -> time its latest transfer resolved since the
                \* last clearCache, or NoTime
    metaFile,   \* condition of metadata.json: [state, readOnly]
    fetchCall,  \* the fetch-wallpapers invocation and its retryRequest loop
    setCall,    \* the set-wallpaper invocation
    app,        \* the renderer's App component: the onboarding tour
    viewer      \* the renderer's WallpaperViewer component

vars == <<now, file, meta, call, batch, windowOpen, ret, lastTransfer, metaFile,
         fetchCall, setCall, app, viewer>>

(***************************************************************************)
(* IPC handlers of main.js at rest.                                        *)
(***************************************************************************)
\* retryRequest: i is the loop index, attempts and waits count what happened
IdleFetch == [pc |-> "idle", i |-> 0, attempts |-> 0, waits |-> 0, startedAt |-> 0]

\* what a renderer may pass where a URL is expected
Undefined == "<undefined>"
NonString == "<number>"
EmptyString == ""
Blank == " "
Malformed == "not a url"

NoImageData ==
    [given |-> FALSE, id |-> "", isLocal |-> FALSE,
     originalUrl |-> Undefined, imageUrl |-> Undefined]

NoResult ==
    [returned |-> FALSE, rejected |-> FALSE, success |-> FALSE, error |-> <<>>,
     imagePath |-> <<>>]

\* the set-wallpaper invocation: downloads and setterCalls count what it did
IdleSet ==
    [pc |-> "idle", invoked |-> FALSE, imageData |-> NoImageData,
     imagePath |-> <<>>, downloads |-> 0, setterCalls |-> 0,
     setterOutcome |-> "none", result |-> NoResult]

(***************************************************************************)
(* Fingerprinter.                                                          *)
(***************************************************************************)
Md5(url) == CASE url = "u1" -> "9f1c" [] url = "u2" -> "03ab" [] OTHER -> "ffff"

ExtName(url) == CASE url = "u1" -> ".png" [] OTHER -> ""

generateFileName(url) ==
    LET hash == Md5(url)
        ext == IF ExtName(url) # "" THEN ExtName(url) ELSE ".jpg"
    IN  <<hash, ext>>

getLocalPath(url) == <<"wallpaper-cache">> \o generateFileName(url)

Paths == {getLocalPath(u) : u \in URLs}

(***************************************************************************)
(* File system primitives on the cache directory.                          *)
(***************************************************************************)
existsSync(f, p) == f[p] # NoFile

statSize(f, p) == f[p].size

unlinkSync(f, p) == [f EXCEPT ![p] = NoFile]

\* open(path, 'w'): create the file, or truncate the one that is there
openForWrite(f, p, c) ==
    IF existsSync(f, p)
    THEN [f EXCEPT ![p] = [size |-> 0, writers |-> f[p].writers \cup {c}]]
    ELSE [f EXCEPT ![p] = [size |-> 0, writers |-> {c}]]

\* a write through descriptor c reaches the path only while c's inode is linked there
writeChunk(f, p, c, pos) ==
    IF existsSync(f, p) /\ c \in f[p].writers
    THEN [f EXCEPT ![p].size = IF pos > @ THEN pos ELSE @]
    ELSE f

closeFd(f, p, c) ==
    IF existsSync(f, p) THEN [f EXCEPT ![p].writers = @ \ {c}] ELSE f

(***************************************************************************)
(* Metadata store.  meta is the content of metadata.json: the mapping it   *)
(* parses to, Unparsable when it does not parse, EmptyMetadata when the    *)
(* file is absent.  metaFile.state tells whether the file is there, can be *)
(* read and parses; metaFile.readOnly whether writing it fails.            *)
(***************************************************************************)
EmptyMetadata == [u \in URLs |-> NoEntry]

MetaStates == {"absent", "ok", "unreadable", "unparsable"}

Unparsable == [garbled |-> TRUE]

\* a read that does not catch the failure of readFileSync
readMetadataUncaught(m, mf) ==
    IF mf.state \in {"ok", "unreadable"} THEN m ELSE EmptyMetadata

\* readMetadata: the parsed mapping, {} when the file is absent or the read
\* or the parse throws
readMetadata(m, mf) == IF mf.state = "ok" THEN m ELSE EmptyMetadata

\* writeMetadata(metadata): writeFileSync, its failure logged and swallowed
writeMetadata(m, mf, metadata) == IF mf.readOnly THEN m ELSE metadata

\* a file that cannot be read stays so when it is rewritten
writeMetadataState(mf) ==
    IF mf.readOnly \/ mf.state = "unreadable" THEN mf ELSE [mf EXCEPT !.state = "ok"]

Keys(m) == {u \in DOMAIN m : m[u] # NoEntry}

(***************************************************************************)
(* Retention policy.                                                       *)
(***************************************************************************)
\* an expiry test that also expires the entry that is exactly 7 days old
isCacheExpiredAtInclusive(m, t, url) ==
    LET cacheInfo == m[url]
    IN  IF cacheInfo = NoEntry \/ cacheInfo.downloadTime = NoTime
        THEN TRUE
        ELSE IF cacheInfo.downloadTime = InvalidTime
             THEN FALSE
             ELSE (t - cacheInfo.downloadTime) >= ExpiryDays * MsPerDay

isCacheExpiredAt(m, t, url) ==
    LET cacheInfo == m[url]
    IN  IF cacheInfo = NoEntry \/ cacheInfo.downloadTime = NoTime
        THEN TRUE
        ELSE IF cacheInfo.downloadTime = InvalidTime
             THEN FALSE    \* NaN > 7
             ELSE (t - cacheInfo.downloadTime) > ExpiryDays * MsPerDay

isCacheExpired(url) == isCacheExpiredAt(readMetadata(meta, metaFile), now, url)

\* removeExpiredCache: the file and the metadata entry of url
removeExpiredFile(f, url) ==
    LET localPath == getLocalPath(url)
    IN  IF existsSync(f, localPath) THEN unlinkSync(f, localPath) ELSE f

\* a removal that leaves the entry of url in the metadata
removeExpiredMetaKept(m, url) == m

removeExpiredMeta(m, url) == [m EXCEPT ![url] = NoEntry]

\* an exists that does not look at the age of the entry
existsValueNoExpiry(f, m, t, url) ==
    LET localPath == getLocalPath(url)
    IN  IF ~existsSync(f, localPath) THEN FALSE
        ELSE IF statSize(f, localPath) = 0 THEN FALSE
        ELSE TRUE

\* an exists that trusts a fresh metadata entry without looking for the file
existsValueFromMetadata(f, m, t, url) == ~isCacheExpiredAt(m, t, url)

\* exists(url): the value returned, and the directory and metadata it leaves
existsValue(f, m, t, url) ==
    LET localPath == getLocalPath(url)
    IN  IF ~existsSync(f, localPath) THEN FALSE
        ELSE IF statSize(f, localPath) = 0 THEN FALSE
        ELSE IF isCacheExpiredAt(m, t, url) THEN FALSE
        ELSE TRUE

\* an exists that reports the empty file but leaves it in place
existsFileKeepsEmpty(f, m, t, url) ==
    LET localPath == getLocalPath(url)
    IN  IF ~existsSync(f, localPath) THEN f
        ELSE IF statSize(f, localPath) = 0 THEN f
        ELSE IF isCacheExpiredAt(m, t, url) THEN removeExpiredFile(f, url)
        ELSE f

existsFile(f, m, t, url) ==
    LET localPath == getLocalPath(url)
    IN  IF ~existsSync(f, localPath) THEN f
        ELSE IF statSize(f, localPath) = 0 THEN unlinkSync(f, localPath)
        ELSE IF isCacheExpiredAt(m, t, url) THEN removeExpiredFile(f, url)
        ELSE f

existsMeta(f, m, t, url) ==
    LET localPath == getLocalPath(url)
    IN  IF ~existsSync(f, localPath) THEN m
        ELSE IF statSize(f, localPath) = 0 THEN m
        ELSE IF isCacheExpiredAt(m, t, url) THEN removeExpiredMeta(m, url)
        ELSE m

\* the console.log line of exists that tells what it removed
existsLog(f, m, t, url) ==
    LET localPath == getLocalPath(url)
    IN  IF ~existsSync(f, localPath) THEN ""
        ELSE IF statSize(f, localPath) = 0 THEN "Removing empty cached file"
        ELSE IF isCacheExpiredAt(m, t, url) THEN "Removing expired cached file"
        ELSE ""

\* whether exists reaches removeExpiredCache, which rewrites metadata.json
existsRewrites(f, m, t, url) ==
    LET localPath == getLocalPath(url)
    IN  /\ existsSync(f, localPath)
        /\ statSize(f, localPath) # 0
        /\ isCacheExpiredAt(m, t, url)

\* an exists that renews the download time of the entry it finds
existsStoreRenewing(f, m, mf, t, url) ==
    IF existsRewrites(f, readMetadata(m, mf), t, url)
    THEN writeMetadata(m, mf, existsMeta(f, readMetadata(m, mf), t, url))
    ELSE IF existsValue(f, readMetadata(m, mf), t, url)
         THEN [m EXCEPT ![url].downloadTime = t]
         ELSE m

\* metadata.json after exists(url)
existsStore(f, m, mf, t, url) ==
    IF existsRewrites(f, readMetadata(m, mf), t, url)
    THEN writeMetadata(m, mf, existsMeta(f, readMetadata(m, mf), t, url))
    ELSE m

existsStoreState(f, m, mf, t, url) ==
    IF existsRewrites(f, readMetadata(m, mf), t, url)
    THEN writeMetadataState(mf)
    ELSE mf

getLocalImageUrl(f, url) ==
    LET localPath == getLocalPath(url)
    IN  IF existsSync(f, localPath) THEN <<"file://", localPath>> ELSE <<>>

(***************************************************************************)
(* Clock.                                                                  *)
(***************************************************************************)
Secs(t) == (t % JumpMs) \div SecondMs

Jumps(t) == t \div JumpMs

TickSecond ==
    /\ Secs(now) < MaxSecs
    /\ now' = now + SecondMs
    /\ ret' = NoRet
    /\ UNCHANGED <<app, viewer, fetchCall, setCall, file, meta, call, batch, windowOpen, lastTransfer, metaFile>>

TickWeek ==
    /\ Jumps(now) < MaxJumps
    /\ now' = now + JumpMs
    /\ ret' = NoRet
    /\ UNCHANGED <<app, viewer, fetchCall, setCall, file, meta, call, batch, windowOpen, lastTransfer, metaFile>>

(***************************************************************************)
(* Batch orchestrator: the part of the loop body that follows the await of *)
(* downloadImage.  It runs in the same turn as the settlement.             *)
(***************************************************************************)
IdleBatch ==
    [pc |-> "idle", items |-> <<>>, idx |-> 0, results |-> <<>>,
     completed |-> 0, progress |-> <<>>,
     pauses |-> <<>>,    \* history: the completed counts at which a pause began
     requested |-> <<>>] \* history: the items for which a request was issued

CachedResult(wallpaper, localPath) ==
    [id |-> wallpaper.id, imageUrl |-> wallpaper.imageUrl,
     localPath |-> localPath, cached |-> TRUE]

FailedResult(wallpaper, message) ==
    [id |-> wallpaper.id, imageUrl |-> wallpaper.imageUrl,
     cached |-> FALSE, error |-> message]

\* a loop that reports progress only for the items that were cached
BatchContinueSkipFailed(b, res, open) ==
    LET results2 == Append(b.results, res)
        completed2 == b.completed + 1
        total == Len(b.items)
    IN  IF ~open /\ res.cached
        THEN [b EXCEPT !.pc = "rejected", !.results = results2,
                       !.completed = completed2]
        ELSE [b EXCEPT !.results = results2,
                       !.completed = completed2,
                       !.progress = IF res.cached
                                    THEN Append(@, <<completed2, total>>)
                                    ELSE @,
                       !.pauses = IF completed2 < total
                                  THEN Append(@, completed2) ELSE @,
                       !.pc = IF completed2 < total THEN "sleeping" ELSE "done"]

\* a loop that sleeps after every item, the last one included
BatchContinuePauseAfterLast(b, res, open) ==
    LET results2 == Append(b.results, res)
        completed2 == b.completed + 1
        total == Len(b.items)
    IN  IF ~open
        THEN [b EXCEPT !.pc = "rejected", !.results = results2,
                       !.completed = completed2]
        ELSE [b EXCEPT !.results = results2,
                       !.completed = completed2,
                       !.progress = Append(@, <<completed2, total>>),
                       !.pauses = Append(@, completed2),
                       !.pc = IF completed2 < total THEN "sleeping" ELSE "done"]

\* a loop that goes back to an item whose download failed
BatchContinueRetryFailed(b, res, open) ==
    LET results2 == Append(b.results, res)
        completed2 == b.completed + 1
        total == Len(b.items)
    IN  IF ~res.cached
        THEN [b EXCEPT !.pc = "sleeping", !.idx = @ - 1]
        ELSE [b EXCEPT !.results = results2,
                       !.completed = completed2,
                       !.progress = Append(@, <<completed2, total>>),
                       !.pauses = IF completed2 < total
                                  THEN Append(@, completed2) ELSE @,
                       !.pc = IF completed2 < total THEN "sleeping" ELSE "done"]

\* results.push, completed++, progressCallback, then the pause or the return
BatchContinue(b, res, open) ==
    LET results2 == Append(b.results, res)
        completed2 == b.completed + 1
        total == Len(b.items)
    IN  IF ~open
        THEN \* mainWindow is null: the callback throws and the loop is left
             [b EXCEPT !.pc = "rejected", !.results = results2,
                       !.completed = completed2]
        ELSE [b EXCEPT !.results = results2,
                       !.completed = completed2,
                       !.progress = Append(@, <<completed2, total>>),
                       !.pauses = IF completed2 < total
                                  THEN Append(@, completed2) ELSE @,
                       !.pc = IF completed2 < total THEN "sleeping" ELSE "done"]

BatchRunning == batch.pc \in {"awaiting", "sleeping"}

(***************************************************************************)
(* Wallpaper setter handler: ipcMain.handle('set-wallpaper').              *)
(***************************************************************************)
DataRequired == <<"Image data is required">>
IdRequired == <<"Image ID is required">>
UrlEmpty == <<"Invalid image URL: URL is empty or not a string">>
UrlFormat(v) == <<"Invalid image URL format: ", v>>
HashTypeError == <<"The \"data\" argument must be of type string">>
FileMissing == <<"Failed to download image: ", "Downloaded image file does not exist">>
FileEmpty == <<"Failed to download image: ", "Downloaded image file is empty">>
DownloadFailed(message) == <<"Failed to download image: ">> \o message
SetterFailed == <<"Failed to set wallpaper: ", "setter error">>

truthy(v) == v \notin {Undefined, EmptyString}

isString(v) == v \notin {Undefined, NonString}

trim(v) == IF v = Blank THEN EmptyString ELSE v

\* new URL(v) does not throw
parsesAsURL(v) == v \in URLs

UrlValues == {Undefined, EmptyString, Blank, NonString, Malformed} \cup URLs

SetInputs ==
    {NoImageData} \cup
    [given : {TRUE}, id : {"", "w1"}, isLocal : BOOLEAN,
     originalUrl : UrlValues, imageUrl : UrlValues]

\* a handler without its outer try/catch
outerCatchRethrows(message) ==
    [NoResult EXCEPT !.returned = TRUE, !.rejected = TRUE, !.error = message]

\* the outer catch: return { success: false, error: error.message }
outerCatch(message) ==
    [NoResult EXCEPT !.returned = TRUE, !.error = message]

\* a lookup of the cached file that does not look at its size
cachedImagePathAnySize(f, imageData) ==
    LET localPath == getLocalPath(imageData.originalUrl)
    IN  IF /\ imageData.isLocal
           /\ truthy(imageData.originalUrl)
           /\ localPath \in Paths
           /\ existsSync(f, localPath)
        THEN localPath
        ELSE <<>>

\* the cached file of an isLocal wallpaper, <<>> when there is none to use
cachedImagePath(f, imageData) ==
    LET localPath == getLocalPath(imageData.originalUrl)
    IN  IF /\ imageData.isLocal
           /\ truthy(imageData.originalUrl)
           /\ localPath \in Paths
           /\ existsSync(f, localPath)
           /\ statSize(f, localPath) > 0
        THEN localPath
        ELSE <<>>

\* the handler up to its first await: what it throws, the cached file it
\* uses, or the URL it downloads
setWallpaperHead(f, imageData) ==
    LET imageUrl == IF truthy(imageData.originalUrl) THEN imageData.originalUrl
                    ELSE imageData.imageUrl
        none == [thrown |-> <<>>, imagePath |-> <<>>, url |-> ""]
    IN  IF ~imageData.given THEN [none EXCEPT !.thrown = DataRequired]
        ELSE IF imageData.id = "" THEN [none EXCEPT !.thrown = IdRequired]
        ELSE IF /\ imageData.isLocal
                /\ truthy(imageData.originalUrl)
                /\ ~isString(imageData.originalUrl)
        THEN [none EXCEPT !.thrown = HashTypeError]   \* hash.update(url) throws
        ELSE IF cachedImagePath(f, imageData) # <<>>
        THEN [none EXCEPT !.imagePath = cachedImagePath(f, imageData)]
        ELSE IF ~truthy(imageUrl) \/ ~isString(imageUrl) \/ trim(imageUrl) = EmptyString
        THEN [none EXCEPT !.thrown = UrlEmpty]
        ELSE IF ~parsesAsURL(imageUrl)
        THEN [none EXCEPT !.thrown = UrlFormat(imageUrl)]
        ELSE [none EXCEPT !.url = imageUrl]

SetReturn(sc, result) == [sc EXCEPT !.pc = "idle", !.result = result]

\* the handler goes on to await setWallpaper(imagePath)
CallSetter(sc, imagePath) ==
    [sc EXCEPT !.pc = "setting", !.imagePath = imagePath, !.setterCalls = @ + 1]

\* after await downloadImage: the checks of the file, the inner catch
afterDownload(sc, ok, value, f) ==
    IF ~ok THEN SetReturn(sc, [NoResult EXCEPT !.returned = TRUE,
                                               !.error = DownloadFailed(value)])
    ELSE IF ~existsSync(f, value)
    THEN SetReturn(sc, [NoResult EXCEPT !.returned = TRUE, !.error = FileMissing])
    ELSE IF statSize(f, value) = 0
    THEN SetReturn(sc, [NoResult EXCEPT !.returned = TRUE, !.error = FileEmpty])
    ELSE CallSetter(sc, value)

\* the continuation of a set-wallpaper call that awaits call c
ResumeSet(c, ok, value) ==
    IF c = DirectCall /\ setCall.pc = "downloading"
    THEN setCall' = afterDownload(setCall, ok, value, file')
    ELSE UNCHANGED setCall

\* a loop without the try/catch around the await: a rejection leaves it
ResumeNoCatch(c, ok, value) ==
    /\ IF c = BatchCall /\ batch.pc = "awaiting"
       THEN IF ok
            THEN batch' = BatchContinue(batch,
                              CachedResult(batch.items[batch.idx], value), windowOpen)
            ELSE batch' = [batch EXCEPT !.pc = "rejected"]
       ELSE UNCHANGED batch
    /\ ResumeSet(c, ok, value)

\* the continuation of whoever awaits call c
Resume(c, ok, value) ==
    /\ IF c = BatchCall /\ batch.pc = "awaiting"
       THEN LET wallpaper == batch.items[batch.idx]
            IN  batch' = BatchContinue(batch,
                             IF ok THEN CachedResult(wallpaper, value)
                                   ELSE FailedResult(wallpaper, value),
                             windowOpen)
       ELSE UNCHANGED batch
    /\ ResumeSet(c, ok, value)

(***************************************************************************)
(* Fetch engine: downloadImage.  A call slot is idle again as soon as its  *)
(* promise settles; ret holds what the settlement delivers.                *)
(***************************************************************************)
IdleCall ==
    [pc |-> "idle", url |-> "", id |-> "", wrote |-> 0, lateOpen |-> FALSE]

InFlight(c) == call[c].pc \in {"requesting", "opening", "piping"}

CallFree(c) ==
    /\ ~InFlight(c)
    /\ ~call[c].lateOpen
    /\ c = BatchCall => ~BatchRunning

Settled(c, url, id, how, value, wasHit) ==
    [op |-> "downloadImage", call |-> c, url |-> url, id |-> id,
     settled |-> how, value |-> value, hit |-> wasHit,
     wrote |-> call[c].wrote]

\* a downloadImage without its pre-check
CacheHitNever(url) == FALSE

CacheHit(url) == existsValue(file, readMetadata(meta, metaFile), now, url)

\* the synchronous head of downloadImage: the exists check, then the request
BeginDownload(c, url, id) ==
    LET localPath == getLocalPath(url)
    IN  /\ file' = existsFile(file, readMetadata(meta, metaFile), now, url)
        /\ meta' = existsStore(file, meta, metaFile, now, url)
        /\ metaFile' = existsStoreState(file, meta, metaFile, now, url)
        /\ IF CacheHit(url)
           THEN /\ call' = [call EXCEPT ![c] = IdleCall]
                /\ ret' = Settled(c, url, id, "resolved", localPath, TRUE)
           ELSE /\ call' = [call EXCEPT ![c] =
                              [IdleCall EXCEPT !.pc = "requesting", !.url = url,
                                               !.id = id]]
                /\ ret' = NoRet

DownloadImage(c, url, id) ==
    /\ CallFree(c)
    /\ BeginDownload(c, url, id)
    /\ UNCHANGED <<app, viewer, fetchCall, setCall, now, batch, windowOpen, lastTransfer>>

\* ipcMain.handle('set-wallpaper'): the handler up to its first await
SetWallpaper(imageData) ==
    /\ setCall.pc = "idle"
    /\ LET head == setWallpaperHead(file, imageData)
           sc == [IdleSet EXCEPT !.invoked = TRUE, !.imageData = imageData]
       IN  IF head.thrown # <<>>
           THEN /\ setCall' = SetReturn(sc, outerCatch(head.thrown))
                /\ ret' = NoRet
                /\ UNCHANGED <<file, meta, metaFile, call>>
           ELSE IF head.imagePath # <<>>
           THEN /\ setCall' = CallSetter(sc, head.imagePath)
                /\ ret' = NoRet
                /\ UNCHANGED <<file, meta, metaFile, call>>
           ELSE /\ CallFree(DirectCall)
                /\ BeginDownload(DirectCall, head.url, imageData.id)
                /\ setCall' =
                      IF CacheHit(head.url)
                      THEN afterDownload([sc EXCEPT !.downloads = 1], TRUE,
                                         getLocalPath(head.url), file')
                      ELSE [sc EXCEPT !.pc = "downloading", !.downloads = 1]
    /\ UNCHANGED <<app, viewer, fetchCall, now, batch, windowOpen, lastTransfer>>

\* await setWallpaper(imagePath) settles
SetterDone(ok) ==
    /\ setCall.pc = "setting"
    /\ setCall' = SetReturn([setCall EXCEPT !.setterOutcome =
                                                IF ok THEN "ok" ELSE "error"],
                     IF ok
                     THEN [NoResult EXCEPT !.returned = TRUE, !.success = TRUE,
                                           !.imagePath = setCall.imagePath]
                     ELSE [NoResult EXCEPT !.returned = TRUE, !.error = SetterFailed])
    /\ ret' = NoRet
    /\ UNCHANGED <<app, viewer, fetchCall, now, file, meta, call, batch, windowOpen, lastTransfer,
                   metaFile>>

Reject(c, message, pending) ==
    /\ call' = [call EXCEPT ![c] =
                  IF pending
                  THEN [IdleCall EXCEPT !.url = call[c].url, !.lateOpen = TRUE]
                  ELSE IdleCall]
    /\ ret' = Settled(c, call[c].url, call[c].id, "rejected", message, FALSE)
    /\ Resume(c, FALSE, message)

\* axios rejects: timeout, connection failure, error status
RequestFail(c) ==
    /\ call[c].pc = "requesting"
    /\ Reject(c, RequestMessage, FALSE)
    /\ UNCHANGED <<app, viewer, fetchCall, now, file, meta, windowOpen, lastTransfer, metaFile>>

\* the response arrives: createWriteStream, the handlers, pipe
Response(c) ==
    /\ call[c].pc = "requesting"
    /\ call' = [call EXCEPT ![c].pc = "opening"]
    /\ ret' = NoRet
    /\ UNCHANGED <<app, viewer, fetchCall, setCall, now, file, meta, batch, windowOpen, lastTransfer, metaFile>>

\* the write stream's open completes
WriterOpen(c) ==
    /\ call[c].pc = "opening"
    /\ file' = openForWrite(file, getLocalPath(call[c].url), c)
    /\ call' = [call EXCEPT ![c].pc = "piping"]
    /\ ret' = NoRet
    /\ UNCHANGED <<app, viewer, fetchCall, setCall, now, meta, batch, windowOpen, lastTransfer, metaFile>>

Chunk(c) ==
    /\ call[c].pc = "piping"
    /\ call[c].wrote < MaxBody
    /\ file' = writeChunk(file, getLocalPath(call[c].url), c, call[c].wrote + 1)
    /\ call' = [call EXCEPT ![c].wrote = @ + 1]
    /\ ret' = NoRet
    /\ UNCHANGED <<app, viewer, fetchCall, setCall, now, meta, batch, windowOpen, lastTransfer, metaFile>>

\* an error handler that forgets the cleanup
cleanupFileForgotten(f, localPath) == f

\* the cleanup of an error handler: unlink the file if it is there
cleanupFile(f, localPath) ==
    IF existsSync(f, localPath) THEN unlinkSync(f, localPath) ELSE f

\* response.data 'error'
StreamError(c) ==
    /\ call[c].pc \in {"opening", "piping"}
    /\ file' = cleanupFile(file, getLocalPath(call[c].url))
    /\ Reject(c, StreamMessage, call[c].pc = "opening")
    /\ UNCHANGED <<app, viewer, fetchCall, now, meta, windowOpen, lastTransfer, metaFile>>

\* the open that was pending when the writer was destroyed still creates the file
LateOpen(c) ==
    /\ call[c].lateOpen
    /\ LET localPath == getLocalPath(call[c].url)
       IN  file' = closeFd(openForWrite(file, localPath, c), localPath, c)
    /\ call' = [call EXCEPT ![c] = IdleCall]
    /\ ret' = NoRet
    /\ UNCHANGED <<app, viewer, fetchCall, setCall, now, meta, batch, windowOpen, lastTransfer, metaFile>>

\* writer 'error'
WriterError(c) ==
    /\ call[c].pc \in {"opening", "piping"}
    /\ file' = cleanupFile(file, getLocalPath(call[c].url))
    /\ Reject(c, WriteMessage, FALSE)
    /\ UNCHANGED <<app, viewer, fetchCall, now, meta, windowOpen, lastTransfer, metaFile>>

\* an entry that does not record the size of the file
NewEntryWithoutSize(url, id, localPath, t, size) ==
    [id |-> id, localPath |-> localPath, downloadTime |-> t,
     originalUrl |-> url, fileSize |-> 0]

\* an entry that records the catalog id where the URL belongs
NewEntryNamedById(url, id, localPath, t, size) ==
    [id |-> id, localPath |-> localPath, downloadTime |-> t,
     originalUrl |-> id, fileSize |-> size]

NewEntry(url, id, localPath, t, size) ==
    [id |-> id, localPath |-> localPath, downloadTime |-> t,
     originalUrl |-> url, fileSize |-> size]

\* an update that starts from a snapshot taken before the other writes
updatedMetadataStale(m, mf, url, entry) ==
    [EmptyMetadata EXCEPT ![url] = entry]

\* const metadata = this.readMetadata(); metadata[url] = {...}
updatedMetadata(m, mf, url, entry) ==
    [readMetadata(m, mf) EXCEPT ![url] = entry]

\* a 'finish' handler without its size check
IsEmptyDownloadNever(size) == FALSE

\* the size check of the 'finish' handler
IsEmptyDownload(size) == size = 0

\* writer 'finish'
Finish(c) ==
    /\ call[c].pc = "piping"
    /\ LET url == call[c].url
           localPath == getLocalPath(url)
       IN  IF ~existsSync(file, localPath)
           THEN \* statSync throws inside the event handler: the promise never settles
                /\ call' = [call EXCEPT ![c] = IdleCall]
                /\ ret' = Settled(c, url, call[c].id, "uncaught", <<"ENOENT">>, FALSE)
                /\ UNCHANGED <<app, viewer, fetchCall, setCall, now, file, meta, batch, windowOpen, lastTransfer, metaFile>>
           ELSE IF IsEmptyDownload(statSize(file, localPath))
           THEN /\ file' = unlinkSync(file, localPath)
                /\ Reject(c, EmptyFileMessage, FALSE)
                /\ UNCHANGED <<app, viewer, fetchCall, now, meta, windowOpen, lastTransfer, metaFile>>
           ELSE /\ file' = closeFd(file, localPath, c)
                /\ meta' = writeMetadata(meta, metaFile,
                              updatedMetadata(meta, metaFile, url,
                                  NewEntry(url, call[c].id, localPath, now,
                                           statSize(file, localPath))))
                /\ metaFile' = writeMetadataState(metaFile)
                /\ call' = [call EXCEPT ![c] = IdleCall]
                /\ ret' = Settled(c, url, call[c].id, "resolved", localPath, FALSE)
                /\ Resume(c, TRUE, localPath)
                /\ lastTransfer' = [lastTransfer EXCEPT ![url] = now]
                /\ UNCHANGED <<app, viewer, fetchCall, now, windowOpen>>

(***************************************************************************)
(* Batch orchestrator: batchDownload.                                      *)
(***************************************************************************)
Wallpapers == {[id |-> "w1", imageUrl |-> "u1"],
               [id |-> "w2", imageUrl |-> "u2"],
               [id |-> "w3", imageUrl |-> "u1"]}

RECURSIVE ListsUpTo(_)
ListsUpTo(n) ==
    IF n = 0 THEN {<<>>}
    ELSE LET shorter == ListsUpTo(n - 1)
         IN  shorter \cup {Append(l, w) : l \in {x \in shorter : Len(x) = n - 1},
                                          w \in Wallpapers}

BatchInputs == ListsUpTo(MaxBatch)

\* a loop that does not await the download before it goes on
MayStartItemNoAwait(b) ==
    /\ b.pc \in {"sleeping", "awaiting"}
    /\ b.idx < Len(b.items)
    /\ ~call[BatchCall].lateOpen

\* the loop may go on to its next item
MayStartItem(b) == b.pc = "sleeping" /\ ~call[BatchCall].lateOpen

\* one turn of the loop up to its first suspension: item k of b
StartItem(b, k) ==
    LET wallpaper == b.items[k]
        url == wallpaper.imageUrl
    IN  /\ BeginDownload(BatchCall, url, wallpaper.id)
        /\ batch' = IF CacheHit(url)
                    THEN BatchContinue([b EXCEPT !.idx = k],
                                       CachedResult(wallpaper, getLocalPath(url)),
                                       windowOpen)
                    ELSE [b EXCEPT !.idx = k, !.pc = "awaiting",
                                   !.requested = Append(@, k)]

BatchDownload(wallpapers) ==
    /\ batch.pc = "idle"
    /\ CallFree(BatchCall)
    /\ LET b == [IdleBatch EXCEPT !.items = wallpapers]
       IN  IF Len(wallpapers) = 0
           THEN /\ batch' = [b EXCEPT !.pc = "done"]
                /\ ret' = NoRet
                /\ UNCHANGED <<app, viewer, fetchCall, setCall, file, meta, call, metaFile>>
           ELSE StartItem(b, 1)
    /\ UNCHANGED <<app, viewer, fetchCall, setCall, now, windowOpen, lastTransfer>>

\* the one-second timer fires and the loop takes its next item
BatchNext ==
    /\ MayStartItem(batch)
    /\ now' = now + BatchDelayMs
    /\ StartItem(batch, batch.idx + 1)
    /\ UNCHANGED <<app, viewer, fetchCall, setCall, windowOpen, lastTransfer>>

\* mainWindow 'closed'
WindowClosed ==
    /\ windowOpen
    /\ windowOpen' = FALSE
    /\ ret' = NoRet
    /\ UNCHANGED <<app, viewer, fetchCall, setCall, now, file, meta, call, batch, lastTransfer, metaFile>>

(***************************************************************************)
(* Synchronous queries.                                                    *)
(***************************************************************************)
Exists(url) ==
    /\ ret' = [op |-> "exists", url |-> url,
               value |-> existsValue(file, readMetadata(meta, metaFile), now, url),
               log |-> existsLog(file, readMetadata(meta, metaFile), now, url)]
    /\ file' = existsFile(file, readMetadata(meta, metaFile), now, url)
    /\ meta' = existsStore(file, meta, metaFile, now, url)
    /\ metaFile' = existsStoreState(file, meta, metaFile, now, url)
    /\ UNCHANGED <<app, viewer, fetchCall, setCall, now, call, batch, windowOpen, lastTransfer>>

GetLocalPath(url) ==
    /\ ret' = [op |-> "getLocalPath", url |-> url, value |-> getLocalPath(url)]
    /\ UNCHANGED <<app, viewer, fetchCall, setCall, now, file, meta, call, batch, windowOpen, lastTransfer, metaFile>>

\* a lookup that goes through exists(url), purging what exists purges
GetLocalImageUrlViaExists(url) ==
    /\ ret' = [op |-> "getLocalImageUrl", url |-> url,
               value |-> IF existsValue(file, readMetadata(meta, metaFile), now, url)
                         THEN <<"file://", getLocalPath(url)>> ELSE <<>>]
    /\ file' = existsFile(file, readMetadata(meta, metaFile), now, url)
    /\ meta' = existsStore(file, meta, metaFile, now, url)
    /\ metaFile' = existsStoreState(file, meta, metaFile, now, url)
    /\ UNCHANGED <<app, viewer, fetchCall, setCall, now, call, batch, windowOpen, lastTransfer>>

GetLocalImageUrl(url) ==
    /\ ret' = [op |-> "getLocalImageUrl", url |-> url,
               value |-> getLocalImageUrl(file, url)]
    /\ UNCHANGED <<app, viewer, fetchCall, setCall, now, file, meta, call, batch, windowOpen, lastTransfer, metaFile>>

\* fetch-wallpapers, after the catalog has arrived: the cache lookup per record
WallpapersWithCache(f, wallpapers) ==
    [i \in DOMAIN wallpapers |->
        LET wp == wallpapers[i]
            localUrl == getLocalImageUrl(f, wp.imageUrl)
        IN  [id |-> wp.id,
             originalUrl |-> wp.imageUrl,
             imageUrl |-> IF localUrl # <<>> THEN localUrl ELSE <<wp.imageUrl>>,
             isLocal |-> localUrl # <<>>]]

Catalog == <<[id |-> "w1", imageUrl |-> "u1"], [id |-> "w2", imageUrl |-> "u2"]>>

FetchWallpapers ==
    /\ ret' = [op |-> "fetch-wallpapers", url |-> "",
               value |-> WallpapersWithCache(file, Catalog)]
    /\ UNCHANGED <<app, viewer, fetchCall, setCall, now, file, meta, call, batch, windowOpen, lastTransfer, metaFile>>

(***************************************************************************)
(* Catalog client: retryRequest and the fetch-wallpapers handler.          *)
(***************************************************************************)
\* a loop that gives up one failure later
retryGivesUpLate(i, maxRetries) == i = maxRetries

\* if (i === maxRetries - 1) return null
retryGivesUp(i, maxRetries) == i = maxRetries - 1

\* what the handler returns for the response retryRequest hands it
fetchResult(f, data) ==
    IF data = <<>> THEN <<>> ELSE WallpapersWithCache(f, data)

FetchReturn(outcome, value) ==
    [op |-> "fetch-wallpapers", url |-> "", value |-> value, outcome |-> outcome,
     threw |-> FALSE, attempts |-> fetchCall.attempts, waits |-> fetchCall.waits,
     elapsed |-> now - fetchCall.startedAt]

\* ipcRenderer.invoke('fetch-wallpapers'): the first axios.get is issued.  The
\* clock of the model has room for the waits of one retryRequest.
FetchStart ==
    /\ fetchCall.pc = "idle"
    /\ now + RetryDelayMs * (MaxRetries - 1) <= MaxSecs * SecondMs
    /\ fetchCall' = [IdleFetch EXCEPT !.pc = "requesting", !.attempts = 1,
                                      !.startedAt = now]
    /\ ret' = NoRet
    /\ UNCHANGED <<app, viewer, now, file, meta, call, batch, windowOpen, lastTransfer, metaFile,
                   setCall>>

\* requestFn resolves with data: the catalog, or nothing (response.data falsy)
AttemptSucceeds(data) ==
    /\ fetchCall.pc = "requesting"
    /\ ret' = FetchReturn(IF data = <<>> THEN "nodata" ELSE "data",
                          fetchResult(file, data))
    /\ fetchCall' = IdleFetch
    /\ UNCHANGED <<app, viewer, now, file, meta, call, batch, windowOpen, lastTransfer, metaFile,
                   setCall>>

\* requestFn rejects: network error, error status or the 10 s timeout
AttemptFails ==
    /\ fetchCall.pc = "requesting"
    /\ IF retryGivesUp(fetchCall.i, MaxRetries)
       THEN \* retryRequest returns null and the handler returns []
            /\ ret' = FetchReturn("failed", <<>>)
            /\ fetchCall' = IdleFetch
       ELSE /\ ret' = NoRet
            /\ fetchCall' = [fetchCall EXCEPT !.pc = "waiting", !.waits = @ + 1]
    /\ UNCHANGED <<app, viewer, now, file, meta, call, batch, windowOpen, lastTransfer, metaFile,
                   setCall>>

\* the delay of retryRequest elapses and the next attempt is issued
RetryTimer ==
    /\ fetchCall.pc = "waiting"
    /\ now' = now + RetryDelayMs
    /\ fetchCall' = [fetchCall EXCEPT !.pc = "requesting", !.i = @ + 1,
                                      !.attempts = @ + 1]
    /\ ret' = NoRet
    /\ UNCHANGED <<app, viewer, file, meta, call, batch, windowOpen, lastTransfer, metaFile,
                   setCall>>

(***************************************************************************)
(* Retention sweep: cleanupExpiredCache.                                   *)
(***************************************************************************)
\* the URLs the loop finds expired; removing one does not change the others
\* a sweep that takes every entry for expired
expiredKeysAll(m, t) == Keys(m)

expiredKeys(m, t) == {url \in Keys(m) : isCacheExpiredAt(m, t, url)}

RECURSIVE removeAllFiles(_, _)
removeAllFiles(f, urls) ==
    IF urls = {} THEN f
    ELSE LET url == CHOOSE u \in urls : TRUE
         IN  removeAllFiles(removeExpiredFile(f, url), urls \ {url})

RECURSIVE removeAllMeta(_, _)
removeAllMeta(m, urls) ==
    IF urls = {} THEN m
    ELSE LET url == CHOOSE u \in urls : TRUE
         IN  removeAllMeta(removeExpiredMeta(m, url), urls \ {url})

\* a sweep that counts every entry it looked at
cleanedCountAll(m, t) == Cardinality(Keys(m))

cleanedCount(m, t) == Cardinality(expiredKeys(m, t))

CleanupExpiredCache ==
    LET metadata == readMetadata(meta, metaFile)
        expired == expiredKeys(metadata, now)
    IN  /\ ret' = [op |-> "cleanupExpiredCache", value |-> cleanedCount(metadata, now),
                   removed |-> expired]
        /\ file' = removeAllFiles(file, expired)
        /\ meta' = IF expired = {} THEN meta
                   ELSE writeMetadata(meta, metaFile, removeAllMeta(metadata, expired))
        /\ metaFile' = IF expired = {} THEN metaFile ELSE writeMetadataState(metaFile)
        /\ UNCHANGED <<app, viewer, fetchCall, setCall, now, call, batch, windowOpen, lastTransfer>>

(***************************************************************************)
(* Cache administrator: clearCache and getCacheStats.                      *)
(***************************************************************************)
MetadataName == <<"wallpaper-cache", "metadata.json">>

\* readdirSync(cacheDir)
readdirSync(f, mf) ==
    {p \in Paths : existsSync(f, p)} \cup
    (IF mf.state = "absent" THEN {} ELSE {MetadataName})

\* a clearCache that gives up at the first file it cannot delete
clearedFilesNone(f, mf, skipped) ==
    IF skipped = {} THEN [p \in Paths |-> NoFile] ELSE f

\* the image files after the loop: every file is unlinked but the skipped ones
clearedFiles(f, mf, skipped) ==
    [p \in Paths |-> IF p \in skipped THEN f[p] ELSE NoFile]

\* metadata.json after the loop: it is one of the files of the directory
clearedStore(m, mf, skipped) ==
    IF MetadataName \in skipped
    THEN [meta |-> m, metaFile |-> mf]
    ELSE [meta |-> EmptyMetadata, metaFile |-> [mf EXCEPT !.state = "absent"]]

\* clearCache; skipped are the files whose statSync or unlinkSync throws.
\* ret tells what the directory listed and which URLs were cached at the call.
ClearCache(skipped) ==
    /\ skipped \subseteq readdirSync(file, metaFile)
    /\ file' = clearedFiles(file, metaFile, skipped)
    /\ meta' = clearedStore(meta, metaFile, skipped).meta
    /\ metaFile' = clearedStore(meta, metaFile, skipped).metaFile
    /\ ret' = [op |-> "clearCache", threw |-> FALSE, skipped |-> skipped,
               listed |-> readdirSync(file, metaFile),
               cached |-> {u \in URLs :
                             existsValue(file, readMetadata(meta, metaFile), now, u)}]
    /\ lastTransfer' = [u \in URLs |-> NoTime]
    /\ UNCHANGED <<app, viewer, fetchCall, setCall, now, call, batch, windowOpen>>

\* clearCache when readdirSync throws: the outer catch logs and rethrows
ClearCacheThrows ==
    /\ ret' = [op |-> "clearCache", threw |-> TRUE, skipped |-> {},
               listed |-> {}, cached |-> {}]
    /\ UNCHANGED <<app, viewer, fetchCall, setCall, now, file, meta, call, batch, windowOpen, lastTransfer, metaFile>>

RECURSIVE SumSizes(_, _)
SumSizes(f, ps) ==
    IF ps = {} THEN 0
    ELSE LET p == CHOOSE q \in ps : TRUE
         IN  statSize(f, p) + SumSizes(f, ps \ {p})

\* a count taken from the directory listing
totalImagesFromFiles(f, m, mf) == Cardinality(readdirSync(f, mf) \ {MetadataName})

\* Object.keys(metadata).length
totalImages(f, m, mf) == Cardinality(Keys(readMetadata(m, mf)))

\* a byte total that stops at the first file it cannot stat
cacheSizeAllOrNothing(f, mf, unstatable, listable) ==
    IF ~listable \/ unstatable # {} THEN 0
    ELSE SumSizes(f, readdirSync(f, mf) \ {MetadataName})

\* the sizes of the listed files but metadata.json, the unstatable ones skipped
cacheSize(f, mf, unstatable, listable) ==
    IF ~listable THEN 0
    ELSE SumSizes(f, (readdirSync(f, mf) \ {MetadataName}) \ unstatable)

getCacheStats(f, m, mf, unstatable, listable) ==
    [totalImages |-> totalImages(f, m, mf),
     cacheSize |-> cacheSize(f, mf, unstatable, listable),
     oldestImage |-> "null", newestImage |-> "null"]

\* getCacheStats; unstatable are the files whose statSync throws, listable is
\* whether readdirSync succeeds
GetCacheStats(unstatable, listable) ==
    /\ unstatable \subseteq readdirSync(file, metaFile) \ {MetadataName}
    /\ listable \/ unstatable = {}
    /\ ret' = [op |-> "getCacheStats",
               value |-> getCacheStats(file, meta, metaFile, unstatable, listable),
               unstatable |-> unstatable, listable |-> listable]
    /\ UNCHANGED <<app, viewer, fetchCall, setCall, now, file, meta, call, batch, windowOpen, lastTransfer, metaFile>>

\* readMetadata called on its own
ReadMetadata ==
    /\ ret' = [op |-> "readMetadata", value |-> readMetadata(meta, metaFile),
               threw |-> FALSE]
    /\ UNCHANGED <<app, viewer, fetchCall, setCall, now, file, meta, call, batch, windowOpen, lastTransfer, metaFile>>

(***************************************************************************)
(* Environment of metadata.json: the file is damaged or loses a permission *)
(* from outside the program.                                               *)
(***************************************************************************)
\* the content no longer parses
MetadataGarbled ==
    /\ metaFile.state = "ok"
    /\ meta' = Unparsable
    /\ metaFile' = [metaFile EXCEPT !.state = "unparsable"]
    /\ ret' = NoRet
    /\ UNCHANGED <<app, viewer, fetchCall, setCall, now, file, call, batch, windowOpen, lastTransfer>>

\* readFileSync starts to throw, the content is as it was
MetadataUnreadable ==
    /\ metaFile.state = "ok"
    /\ metaFile' = [metaFile EXCEPT !.state = "unreadable"]
    /\ ret' = NoRet
    /\ UNCHANGED <<app, viewer, fetchCall, setCall, now, file, meta, call, batch, windowOpen, lastTransfer>>

\* writeFileSync starts or stops to throw
SetReadOnly(b) ==
    /\ metaFile.readOnly # b
    /\ metaFile' = [metaFile EXCEPT !.readOnly = b]
    /\ ret' = NoRet
    /\ UNCHANGED <<app, viewer, fetchCall, setCall, now, file, meta, call, batch, windowOpen, lastTransfer>>

(***************************************************************************)
(* Renderer, App component: the onboarding tour (App.js, OnboardingTour).  *)
(* Timers hold the milliseconds left until they fire.                      *)
(***************************************************************************)
MaxUpdates == 2
MaxSessions == 2
FirstUseDelayMs == 1000
CompleteDelayMs == 300
StepCount == 9
NoTimer == -1

\* everything outside the renderer
mainVars == <<now, file, meta, call, batch, windowOpen, ret, lastTransfer, metaFile,
              fetchCall, setCall>>

\* the first-use effect: its cleanup clears the timer of the previous run, and
\* it starts a timer when localStorage has no completion mark
firstUseEffect(a) ==
    [a EXCEPT !.showTimer = IF ~a.completed THEN FirstUseDelayMs ELSE NoTimer]

\* the App component as a session mounts it
Mount(session, completed, dismissed) ==
    firstUseEffect([session |-> session,
                    completed |-> completed,       \* localStorage mark
                    loading |-> TRUE,
                    showOnboarding |-> FALSE,
                    isVisible |-> FALSE,           \* state of the mounted tour
                    currentStep |-> 0,
                    showTimer |-> NoTimer,         \* setTimeout of the effect
                    completeTimer |-> NoTimer,     \* setTimeout of completeTour
                    updates |-> 0,
                    dismissed |-> dismissed,       \* history: completed or skipped
                    shownBy |-> "none"])           \* history: what opened the tour

FirstMount == Mount(1, FALSE, FALSE)

\* the tour is rendered outside the loading screen
tourMounted(a) == a.showOnboarding /\ ~a.loading

\* a render that mounts the tour gives it its initial state
render(old, new) ==
    IF tourMounted(new) /\ ~tourMounted(old)
    THEN [new EXCEPT !.isVisible = TRUE, !.currentStep = 0]
    ELSE new

\* setShowOnboarding(true)
showTour(a, by) ==
    IF a.showOnboarding THEN a
    ELSE render(a, [a EXCEPT !.showOnboarding = TRUE, !.shownBy = by])

completeTour(a) ==
    [a EXCEPT !.isVisible = FALSE, !.completeTimer = CompleteDelayMs,
              !.dismissed = TRUE]

\* setWallpapers: the fetch result, which ends the loading screen, then the
\* end of the silent caching
WallpapersUpdated ==
    /\ app.updates < MaxUpdates
    /\ app' = render(app, firstUseEffect([app EXCEPT !.updates = @ + 1,
                                                     !.loading = FALSE]))
    /\ UNCHANGED <<viewer, mainVars>>

ShowTimerFires ==
    /\ app.showTimer = 0
    /\ app' = showTour([app EXCEPT !.showTimer = NoTimer], "auto")
    /\ UNCHANGED <<viewer, mainVars>>

PressF1 ==
    /\ ~app.showOnboarding
    /\ app' = showTour(app, "F1")
    /\ UNCHANGED <<viewer, mainVars>>

NextStep ==
    /\ tourMounted(app) /\ app.isVisible
    /\ app' = IF app.currentStep < StepCount - 1
              THEN [app EXCEPT !.currentStep = @ + 1]
              ELSE completeTour(app)
    /\ UNCHANGED <<viewer, mainVars>>

PrevStep ==
    /\ tourMounted(app) /\ app.isVisible
    /\ app.currentStep > 0
    /\ app' = [app EXCEPT !.currentStep = @ - 1]
    /\ UNCHANGED <<viewer, mainVars>>

SkipTour ==
    /\ tourMounted(app) /\ app.isVisible
    /\ app' = completeTour(app)
    /\ UNCHANGED <<viewer, mainVars>>

\* localStorage.setItem(...); onComplete()
CompleteTimerFires ==
    /\ app.completeTimer = 0
    /\ app' = [app EXCEPT !.completeTimer = NoTimer, !.completed = TRUE,
                          !.showOnboarding = FALSE]
    /\ UNCHANGED <<viewer, mainVars>>

PendingTimers(a) == {t \in {a.showTimer, a.completeTimer} : t # NoTimer}

\* time passes, no further than the next timer
Elapse(d) ==
    /\ PendingTimers(app) # {}
    /\ \A t \in PendingTimers(app) : d <= t
    /\ app' = [app EXCEPT !.showTimer = IF @ = NoTimer THEN @ ELSE @ - d,
                          !.completeTimer = IF @ = NoTimer THEN @ ELSE @ - d]
    /\ UNCHANGED <<viewer, mainVars>>

\* the window is reloaded or the app is started again
Restart ==
    /\ app.session < MaxSessions
    /\ app' = Mount(app.session + 1, app.completed, app.dismissed)
    /\ UNCHANGED <<viewer, mainVars>>

(***************************************************************************)
(* Renderer, WallpaperViewer: the carousel and the auto-set mode.  The     *)
(* order in which timers fire is kept (25 ms before 280 ms, 100 ms before  *)
(* 200 ms); a pending timer of the auto-set effect fires at any moment.    *)
(* One wallpaper, the first of the list, is followed through preloading.   *)
(***************************************************************************)
MaxWallpapers == 9
MaxBelow == 2
MaxRequests == 3
MaxPending == 2
DisplayCount == 8
maxRetries == 3
NaN == -99

IdleViewer ==
    [length |-> 0,                   \* displayWallpapers.length
     propSeen |-> FALSE,             \* the display effect has run
     currentIndex |-> 0,
     isTransitioning |-> FALSE,
     slideDirection |-> "",
     phase |-> "idle",               \* which timers of a transition are pending
     target |-> 0,                   \* the index the 25 ms / 100 ms timer sets
     trail |-> <<>>,                 \* history: the last two moves
     autoSetWallpaper |-> FALSE,
     lastAutoSetIndex |-> -1,
     isSettingWallpaper |-> FALSE,
     autoTimer |-> FALSE,            \* the 1000 ms timer of the auto-set effect
     pending |-> <<>>,               \* set-wallpaper requests not yet answered
     autoCount |-> 0,                \* history: automatic requests for this index
     imageCache |-> "none",          \* imageCache[id] of the first wallpaper
     loadingImages |-> FALSE,        \* loadingImages[id]
     loadingSet |-> FALSE,           \* loadingSetRef.current.has(id)
     loads |-> <<>>,                 \* retryCount of each Image() load in progress
     retryTimers |-> [retryCount \in 1 .. maxRetries |-> 0],
                                     \* pending retry timers, by the retryCount of
                                     \* the call they make
     effectDue |-> FALSE,            \* preloadImages changed: the effect will run
     element |-> "none",             \* the <img> of the carousel
     attempts |-> 0,                 \* history: loads started
     succeeded |-> FALSE,            \* history: a load succeeded
     retried |-> FALSE]              \* history: the retry button was used

\* JavaScript's %: the sign of the dividend, NaN for a zero divisor
rem(a, n) ==
    IF a = NaN \/ n = 0 THEN NaN
    ELSE IF a >= 0 THEN a % n ELSE -((-a) % n)

\* a next index that does not wrap
nextIdxNoWrap(i, n) == IF i = NaN THEN NaN ELSE i + 1

nextIdx(i, n) == IF i = NaN THEN NaN ELSE rem(i + 1, n)

prevIdx(i, n) == IF i = NaN THEN NaN ELSE IF i = 0 THEN n - 1 ELSE i - 1

\* displayWallpapers[currentIndex] is a wallpaper
currentWallpaper(v) == v.currentIndex \in 0 .. v.length - 1

\* the auto-set effect, which runs after every render: its cleanup clears
\* the timer, its body sets one
autoSetEffect(v) ==
    [v EXCEPT !.autoTimer = /\ v.autoSetWallpaper
                            /\ v.currentIndex # v.lastAutoSetIndex
                            /\ v.length > 0
                            /\ ~v.isSettingWallpaper]

\* imageCache[displayWallpapers[i].id] === 'error'
cacheError(v, i) == i = 0 /\ v.imageCache = "error"

\* handleSetWallpaper up to its await
handleSetWallpaper(v, isAuto) ==
    IF ~currentWallpaper(v) \/ (v.isSettingWallpaper /\ ~isAuto) THEN v
    ELSE [v EXCEPT !.isSettingWallpaper = TRUE,
                   !.pending = Append(@, [index |-> v.currentIndex, isAuto |-> isAuto]),
                   !.autoCount = IF isAuto THEN @ + 1 ELSE @]

MaxLoads == 5

\* the body of preloadSingleImage's promise: a load starts
startLoad(v, retryCount) ==
    [v EXCEPT !.loadingSet = TRUE, !.loadingImages = TRUE,
              !.loads = Append(@, retryCount), !.attempts = @ + 1,
              !.effectDue = TRUE]

\* preloadSingleImage; cached and loading are imageCache[id] and
\* loadingImages[id] of the render the function was created in
preloadSingleImage(v, cached, loading, retryCount) ==
    IF cached \/ loading \/ v.loadingSet THEN v
    ELSE startLoad(v, retryCount)

\* preloadImages, for the first wallpaper
preloadImages(v) ==
    IF v.imageCache = "none" /\ ~v.loadingImages
    THEN preloadSingleImage(v, FALSE, FALSE, 0)
    ELSE v

\* the display effect, run when the viewer mounts, before any handler:
\* wallpapers.slice(0, 8)
DisplayWallpapers(n) ==
    /\ ~viewer.propSeen
    /\ viewer' = autoSetEffect(
           IF n > 0
           THEN preloadImages(
                    [viewer EXCEPT !.propSeen = TRUE,
                                   !.length = IF n < DisplayCount THEN n ELSE DisplayCount,
                                   !.element = "loading"])
           ELSE [viewer EXCEPT !.propSeen = TRUE])
    /\ UNCHANGED <<app, mainVars>>

startTransition(v, direction, index) ==
    autoSetEffect([v EXCEPT !.isTransitioning = TRUE, !.slideDirection = direction,
                            !.phase = "moving", !.target = index])

HandlePrevious ==
    /\ viewer.propSeen
    /\ ~viewer.isTransitioning
    /\ viewer.currentIndex = NaN \/ viewer.currentIndex > -MaxBelow
    /\ viewer' = startTransition(viewer, "right",
                                 prevIdx(viewer.currentIndex, viewer.length))
    /\ UNCHANGED <<app, mainVars>>

HandleNext ==
    /\ viewer.propSeen
    /\ ~viewer.isTransitioning
    /\ viewer' = startTransition(viewer, "left",
                                 nextIdx(viewer.currentIndex, viewer.length))
    /\ UNCHANGED <<app, mainVars>>

HandleIndicatorClick(index) ==
    /\ index \in 0 .. viewer.length - 1
    /\ ~(viewer.isTransitioning \/ index = viewer.currentIndex)
    /\ viewer' = startTransition(viewer, viewer.slideDirection, index)
    /\ UNCHANGED <<app, mainVars>>

\* the first wallpaper is the previous, current or next item of the carousel
rendered(v) ==
    /\ v.length > 0
    /\ 0 \in {v.currentIndex, prevIdx(v.currentIndex, v.length),
              nextIdx(v.currentIndex, v.length)}

\* a render mounts or unmounts the <img> of the first wallpaper
draw(old, new) ==
    IF ~rendered(new) THEN [new EXCEPT !.element = "none"]
    ELSE IF ~rendered(old) /\ new.imageCache # "error"
         THEN [new EXCEPT !.element = "loading"]
         ELSE new

lastTwo(q) == IF Len(q) > 2 THEN Tail(q) ELSE q

\* setCurrentIndex(...) of the first timer of a transition
IndexTimerFires ==
    /\ viewer.phase = "moving"
    /\ viewer' = autoSetEffect(draw(viewer,
           [viewer EXCEPT !.currentIndex = viewer.target,
                          !.phase = "settling",
                          !.trail = lastTwo(Append(@, <<viewer.slideDirection,
                                                        viewer.currentIndex>>)),
                          !.autoCount = IF viewer.target = viewer.currentIndex
                                        THEN @ ELSE 0]))
    /\ UNCHANGED <<app, mainVars>>

\* setIsTransitioning(false) of the second timer
EndTimerFires ==
    /\ viewer.phase = "settling"
    /\ viewer' = autoSetEffect([viewer EXCEPT !.isTransitioning = FALSE,
                                              !.slideDirection = "",
                                              !.phase = "idle"])
    /\ UNCHANGED <<app, mainVars>>

\* the set button
ClickSetWallpaper ==
    /\ viewer.length > 0
    /\ Len(viewer.pending) < MaxPending
    /\ ~viewer.isSettingWallpaper
    /\ viewer' = autoSetEffect(handleSetWallpaper(viewer, FALSE))
    /\ UNCHANGED <<app, mainVars>>

ToggleAutoSetWallpaper ==
    /\ viewer.length > 0
    /\ Len(viewer.pending) < MaxPending
    /\ viewer' = autoSetEffect(
           IF ~viewer.autoSetWallpaper
           THEN (IF cacheError(viewer, viewer.currentIndex)
                 THEN [viewer EXCEPT !.autoSetWallpaper = TRUE, !.autoCount = 0]
                 ELSE handleSetWallpaper([viewer EXCEPT !.autoSetWallpaper = TRUE,
                                                        !.autoCount = 0], TRUE))
           ELSE [viewer EXCEPT !.autoSetWallpaper = FALSE,
                               !.lastAutoSetIndex = -1])
    /\ UNCHANGED <<app, mainVars>>

\* the callback of the auto-set effect's timer
AutoTimerFires ==
    /\ viewer.autoTimer
    /\ Len(viewer.pending) < MaxPending
    /\ viewer.autoCount < MaxRequests
    /\ viewer' = autoSetEffect(
           IF cacheError(viewer, viewer.currentIndex)
           THEN [viewer EXCEPT !.autoTimer = FALSE]
           ELSE handleSetWallpaper([viewer EXCEPT !.autoTimer = FALSE], TRUE))
    /\ UNCHANGED <<app, mainVars>>

RemoveAt(q, k) == [j \in 1 .. Len(q) - 1 |-> IF j < k THEN q[j] ELSE q[j + 1]]

\* ipcRenderer.invoke('set-wallpaper') settles: the rest of handleSetWallpaper
SetWallpaperReturns(k, success) ==
    /\ k \in 1 .. Len(viewer.pending)
    /\ viewer' = autoSetEffect(
           [viewer EXCEPT !.pending = RemoveAt(@, k),
                          !.lastAutoSetIndex =
                              IF success /\ viewer.pending[k].isAuto
                              THEN viewer.pending[k].index ELSE @,
                          !.isSettingWallpaper = FALSE])
    /\ UNCHANGED <<app, mainVars>>

\* the display effect runs again: preloadImages is a new function after
\* every change of imageCache or loadingImages
PreloadEffect ==
    /\ viewer.effectDue
    /\ viewer.attempts < MaxLoads
    /\ viewer' = autoSetEffect(preloadImages([viewer EXCEPT !.effectDue = FALSE]))
    /\ UNCHANGED <<app, mainVars>>

\* handleImageError of the load with this retryCount
handleImageError(v, retryCount) ==
    IF retryCount < maxRetries
    THEN [v EXCEPT !.loadingImages = FALSE, !.loadingSet = FALSE,
                   !.retryTimers[retryCount + 1] = @ + 1,
                   !.effectDue = TRUE]
    ELSE [v EXCEPT !.loadingImages = FALSE, !.loadingSet = FALSE,
                   !.imageCache = "error", !.effectDue = TRUE]

\* img.onerror, or the timeout of the load
LoadFails(k) ==
    /\ k \in 1 .. Len(viewer.loads)
    /\ viewer' = autoSetEffect(
           handleImageError([viewer EXCEPT !.loads = RemoveAt(@, k)], viewer.loads[k]))
    /\ UNCHANGED <<app, mainVars>>

\* img.onload
LoadSucceeds(k) ==
    /\ k \in 1 .. Len(viewer.loads)
    /\ viewer' = autoSetEffect(
           [viewer EXCEPT !.loads = RemoveAt(@, k),
                          !.loadingSet = FALSE, !.imageCache = "loaded",
                          !.loadingImages = FALSE, !.succeeded = TRUE,
                          !.effectDue = TRUE])
    /\ UNCHANGED <<app, mainVars>>

\* the callback of a retry timer: the preloadSingleImage of the render the
\* chain started in, where the image was neither cached nor loading
RetryTimerFires(retryCount) ==
    /\ viewer.retryTimers[retryCount] > 0
    /\ viewer.attempts < MaxLoads
    /\ viewer' = autoSetEffect(
           preloadSingleImage([viewer EXCEPT !.retryTimers[retryCount] = @ - 1],
                              FALSE, FALSE, retryCount))
    /\ UNCHANGED <<app, mainVars>>

\* onLoad of the carousel's <img>
ImgElementLoads ==
    /\ rendered(viewer) /\ viewer.element = "loading"
    /\ viewer' = autoSetEffect([viewer EXCEPT !.element = "done",
                                              !.loadingImages = FALSE,
                                              !.effectDue = TRUE])
    /\ UNCHANGED <<app, mainVars>>

\* onError of the carousel's <img>
ImgElementError ==
    /\ rendered(viewer) /\ viewer.element = "loading"
    /\ viewer' = autoSetEffect([viewer EXCEPT !.element = "done",
                                              !.imageCache = "error",
                                              !.loadingImages = FALSE,
                                              !.effectDue = TRUE])
    /\ UNCHANGED <<app, mainVars>>

\* the retry button of the error placeholder: the preloadSingleImage it calls
\* is the one of a render in which the image is marked 'error'
RetryLoadImage ==
    /\ rendered(viewer) /\ viewer.imageCache = "error"
    /\ viewer.attempts < MaxLoads
    /\ viewer' = autoSetEffect(
           preloadSingleImage([viewer EXCEPT !.imageCache = "none",
                                             !.element = "loading",
                                             !.retried = TRUE,
                                             !.effectDue = TRUE],
                              TRUE, FALSE, 0))
    /\ UNCHANGED <<app, mainVars>>

(***************************************************************************)
(* Specifications.                                                         *)
(***************************************************************************)
Init ==
    /\ now = 0
    /\ file = [p \in Paths |-> NoFile]
    /\ meta = EmptyMetadata
    /\ call = [c \in Calls |-> IdleCall]
    /\ batch = IdleBatch
    /\ windowOpen = TRUE
    /\ ret = NoRet
    /\ lastTransfer = [u \in URLs |-> NoTime]
    /\ metaFile = [state |-> "absent", readOnly |-> FALSE]
    /\ fetchCall = IdleFetch
    /\ setCall = IdleSet
    /\ app = FirstMount
    /\ viewer = IdleViewer

DownloadStep(c) ==
    \/ RequestFail(c)
    \/ Response(c)
    \/ WriterOpen(c)
    \/ Chunk(c)
    \/ StreamError(c)
    \/ LateOpen(c)
    \/ WriterError(c)
    \/ Finish(c)

\* one handler at a time downloads; the queries and the clock interleave with it
Next ==
    \/ \E w \in Wallpapers : DownloadImage(DirectCall, w.imageUrl, w.id)
    \/ DownloadStep(DirectCall)
    \/ \E u \in URLs : Exists(u)
    \/ \E u \in URLs : GetLocalImageUrl(u)
    \/ \E u \in URLs : GetLocalPath(u)
    \/ FetchWallpapers
    \/ TickSecond
    \/ TickWeek

Spec == Init /\ [][Next]_vars

\* two handlers download concurrently, and the queries interleave with them
NextRace ==
    \/ \E c \in Calls, w \in Wallpapers : DownloadImage(c, w.imageUrl, w.id)
    \/ \E c \in Calls : DownloadStep(c)
    \/ \E u \in URLs : Exists(u)
    \/ \E u \in URLs : GetLocalImageUrl(u)
    \/ FetchWallpapers

SpecRace == Init /\ [][NextRace]_vars

\* one batchDownload, with nothing else touching the cache
NextBatch ==
    \/ \E l \in BatchInputs : BatchDownload(l)
    \/ BatchNext
    \/ DownloadStep(BatchCall)
    \/ WindowClosed

SpecBatch == Init /\ [][NextBatch]_vars

\* isCacheExpired as a function of the stored metadata and the clock
IsCacheExpired(url) ==
    /\ ret' = [op |-> "isCacheExpired", url |-> url, value |-> isCacheExpired(url)]
    /\ UNCHANGED <<app, viewer, fetchCall, setCall, now, file, meta, call, batch, windowOpen, lastTransfer, metaFile>>

Times == {j * JumpMs + k * SecondMs : j \in 0 .. MaxJumps, k \in 0 .. MaxSecs}

\* what metadata.json may hold for url, a missing or unparsable timestamp included
StoredEntries(url) ==
    {NoEntry} \cup {NewEntry(url, "w1", getLocalPath(url), t, 1) :
                       t \in Times \cup {NoTime, InvalidTime}}

InitExpiry ==
    /\ now \in Times
    /\ file = [p \in Paths |-> NoFile]
    /\ \E e1 \in StoredEntries("u1"), e2 \in StoredEntries("u2") :
          meta = [u \in URLs |-> IF u = "u1" THEN e1 ELSE e2]
    /\ call = [c \in Calls |-> IdleCall]
    /\ batch = IdleBatch
    /\ windowOpen = TRUE
    /\ ret = NoRet
    /\ lastTransfer = [u \in URLs |-> NoTime]
    /\ metaFile = [state |-> "ok", readOnly |-> FALSE]
    /\ fetchCall = IdleFetch
    /\ setCall = IdleSet
    /\ app = FirstMount
    /\ viewer = IdleViewer

NextExpiry ==
    \/ \E u \in URLs : IsCacheExpired(u)
    \/ TickSecond
    \/ TickWeek

SpecExpiry == InitExpiry /\ [][NextExpiry]_vars

\* the retention sweep over every stored metadata, with or without the files
InitSweep ==
    /\ now \in Times
    /\ file \in [Paths -> {NoFile, [size |-> 1, writers |-> {}]}]
    /\ \E e1 \in StoredEntries("u1"), e2 \in StoredEntries("u2") :
          meta = [u \in URLs |-> IF u = "u1" THEN e1 ELSE e2]
    /\ call = [c \in Calls |-> IdleCall]
    /\ batch = IdleBatch
    /\ windowOpen = TRUE
    /\ ret = NoRet
    /\ lastTransfer = [u \in URLs |-> NoTime]
    /\ metaFile = [state |-> "ok", readOnly |-> FALSE]
    /\ fetchCall = IdleFetch
    /\ setCall = IdleSet
    /\ app = FirstMount
    /\ viewer = IdleViewer

NextSweep ==
    \/ CleanupExpiredCache
    \/ \E u \in URLs : Exists(u)
    \/ TickSecond

SpecSweep == InitSweep /\ [][NextSweep]_vars

NextFetch ==
    \/ FetchStart
    \/ \E data \in {Catalog, <<>>} : AttemptSucceeds(data)
    \/ AttemptFails
    \/ RetryTimer
    \/ \E w \in Wallpapers : DownloadImage(DirectCall, w.imageUrl, w.id)
    \/ DownloadStep(DirectCall)

SpecFetch == Init /\ [][NextFetch]_vars

\* the batch with clearCache called from another handler while it runs
NextBatchClear ==
    \/ \E l \in BatchInputs : BatchDownload(l)
    \/ BatchNext
    \/ DownloadStep(BatchCall)
    \/ \E skipped \in SUBSET (Paths \cup {MetadataName}) : ClearCache(skipped)

SpecBatchClear == Init /\ [][NextBatchClear]_vars

\* two handlers download concurrently while entries age; the event loop
\* runs every turn that is ready
NextInterleave ==
    \/ \E c \in Calls, w \in Wallpapers : DownloadImage(c, w.imageUrl, w.id)
    \/ \E c \in Calls : DownloadStep(c)
    \/ TickWeek

\* what a turn of the event loop acts on
cacheVars == <<now, file, meta, call, lastTransfer, metaFile>>

SpecInterleave == Init /\ [][NextInterleave]_vars /\ WF_cacheVars(NextInterleave)

\* the wallpaper setter and the downloads it starts
NextSetWallpaper ==
    \/ \E imageData \in SetInputs : SetWallpaper(imageData)
    \/ DownloadStep(DirectCall)
    \/ \E ok \in BOOLEAN : SetterDone(ok)

SpecSetWallpaper == Init /\ [][NextSetWallpaper]_vars

\* the carousel: lists of every length, keys, clicks and timers
NextNavigate ==
    \/ \E n \in 0 .. MaxWallpapers : DisplayWallpapers(n)
    \/ HandlePrevious
    \/ HandleNext
    \/ \E i \in 0 .. DisplayCount - 1 : HandleIndicatorClick(i)
    \/ IndexTimerFires
    \/ EndTimerFires

SpecNavigate == Init /\ [][NextNavigate]_vars

\* the auto-set mode over a list of two wallpapers
NextAutoSet ==
    \/ DisplayWallpapers(2)
    \/ HandleNext
    \/ IndexTimerFires
    \/ EndTimerFires
    \/ ClickSetWallpaper
    \/ ToggleAutoSetWallpaper
    \/ AutoTimerFires
    \/ \E k \in 1 .. MaxPending, success \in BOOLEAN : SetWallpaperReturns(k, success)

SpecAutoSet == Init /\ [][NextAutoSet]_vars

\* preloading of the first wallpaper of a full list
NextPreload ==
    \/ \E n \in DisplayCount .. MaxWallpapers : DisplayWallpapers(n)
    \/ PreloadEffect
    \/ \E k \in 1 .. 2 : LoadFails(k)
    \/ \E k \in 1 .. 2 : LoadSucceeds(k)
    \/ \E retryCount \in 1 .. maxRetries : RetryTimerFires(retryCount)
    \/ ImgElementLoads
    \/ ImgElementError
    \/ RetryLoadImage

SpecPreload == Init /\ [][NextPreload]_vars

\* the onboarding tour over sessions and wallpaper-list updates
NextTour ==
    \/ WallpapersUpdated
    \/ ShowTimerFires
    \/ PressF1
    \/ NextStep
    \/ PrevStep
    \/ SkipTour
    \/ CompleteTimerFires
    \/ \E k \in 1 .. 10 : Elapse(100 * k)
    \/ Restart

SpecTour == Init /\ [][NextTour]_vars

NextFaults ==
    \/ \E w \in Wallpapers : DownloadImage(DirectCall, w.imageUrl, w.id)
    \/ DownloadStep(DirectCall)
    \/ \E u \in URLs : Exists(u)
    \/ ReadMetadata
    \/ \E skipped \in SUBSET (Paths \cup {MetadataName}) : ClearCache(skipped)
    \/ MetadataGarbled
    \/ MetadataUnreadable
    \/ \E b \in BOOLEAN : SetReadOnly(b)

SpecFaults == Init /\ [][NextFaults]_vars

NextAdmin ==
    \/ \E w \in Wallpapers : DownloadImage(DirectCall, w.imageUrl, w.id)
    \/ DownloadStep(DirectCall)
    \/ \E u \in URLs : Exists(u)
    \/ CleanupExpiredCache
    \/ \E skipped \in SUBSET (Paths \cup {MetadataName}) : ClearCache(skipped)
    \/ ClearCacheThrows
    \/ \E unstatable \in SUBSET Paths, listable \in BOOLEAN :
          GetCacheStats(unstatable, listable)
    \/ TickWeek

SpecAdmin == Init /\ [][NextAdmin]_vars

(***************************************************************************)
(* Batch orchestrator properties, under SpecBatch.                         *)
(***************************************************************************)
ErrorMessages == {RequestMessage, StreamMessage, WriteMessage, EmptyFileMessage}

BatchSettlement ==
    /\ ret.op = "downloadImage"
    /\ ret.call = BatchCall
    /\ ret.settled \in {"resolved", "rejected"}

LastResult == batch.results[Len(batch.results)]

\* C1: batchDownload does not reject because a download failed (it is left only
\* when the progress callback throws); the settlement of each item is pushed as
\* that item's result, cached with the fingerprinted path or not cached with the
\* error message; a failed item is followed by the pause for the next item; and
\* the list returned has one result per input item, in input order.
C1_BatchIsolatesItemFailures ==
    /\ batch.pc = "rejected" => ~windowOpen
    /\ BatchSettlement =>
          /\ Len(batch.results) = batch.idx
          /\ LastResult.id = ret.id
          /\ LastResult.imageUrl = ret.url
          /\ LastResult.id = batch.items[batch.idx].id
          /\ IF ret.settled = "rejected"
             THEN /\ ~LastResult.cached
                  /\ LastResult.error = ret.value
                  /\ LastResult.error \in ErrorMessages
             ELSE /\ LastResult.cached
                  /\ LastResult.localPath = getLocalPath(ret.url)
    /\ (BatchSettlement /\ ret.settled = "rejected" /\ windowOpen
            /\ batch.completed < Len(batch.items)) => batch.pc = "sleeping"
    /\ batch.pc = "done" =>
          /\ Len(batch.results) = Len(batch.items)
          /\ batch.idx = Len(batch.items)
          /\ \A k \in 1 .. Len(batch.items) :
                /\ batch.results[k].id = batch.items[k].id
                /\ batch.results[k].imageUrl = batch.items[k].imageUrl
                /\ IF batch.results[k].cached
                   THEN batch.results[k].localPath
                            = getLocalPath(batch.items[k].imageUrl)
                   ELSE batch.results[k].error \in ErrorMessages

\* a batch of three has returned: the second item failed, the others are cached
C1_Witness ==
    /\ batch.pc = "done"
    /\ Len(batch.items) = 3
    /\ batch.results[1].cached
    /\ ~batch.results[2].cached
    /\ batch.results[3].cached

\* C2: as long as the progress callback has not thrown, it has been invoked once
\* per settled item, with completed = 1, 2, ... in that order and total = n, and
\* when the batch returns it has been invoked exactly n times.
C2_ProgressOncePerItem ==
    batch.pc # "rejected" =>
        /\ batch.completed = Len(batch.results)
        /\ Len(batch.progress) = batch.completed
        /\ \A k \in 1 .. Len(batch.progress) :
              batch.progress[k] = <<k, Len(batch.items)>>
        /\ batch.pc = "done" => Len(batch.progress) = Len(batch.items)

\* a batch of three with a failed item has returned after three progress calls
C2_Witness ==
    /\ batch.pc = "done"
    /\ Len(batch.items) = 3
    /\ \E k \in 1 .. 3 : ~batch.results[k].cached
    /\ batch.progress = <<(<<1, 3>>), (<<2, 3>>), (<<3, 3>>)>>

\* C3: a download is in flight only while the loop awaits it, and it is the
\* download of the item that follows the items already settled: the request of
\* item k+1 is issued after item k has resolved or rejected.
C3_OneDownloadInFlight ==
    /\ \A c \in Calls : InFlight(c) =>
          /\ c = BatchCall
          /\ batch.pc = "awaiting"
          /\ Len(batch.results) = batch.idx - 1
          /\ call[c].url = batch.items[batch.idx].imageUrl
    /\ batch.pc = "awaiting" => Len(batch.results) = batch.idx - 1

\* the request of the second item is in flight, after the first item settled
C3_Witness ==
    /\ call[BatchCall].pc = "requesting"
    /\ batch.idx = 2
    /\ Len(batch.results) = 1

(***************************************************************************)
(* Fetch engine and retention policy properties.                           *)
(***************************************************************************)
ClaimedLifetimeMs == 7 * 24 * 60 * 60 * 1000

RecentTransfer(u) ==
    /\ lastTransfer[u] # NoTime
    /\ now - lastTransfer[u] <= ClaimedLifetimeMs

IssuesRequest(c, u) ==
    /\ call[c].pc = "idle"
    /\ call'[c].pc = "requesting"
    /\ call'[c].url = u

ReturnsHit(c, u) ==
    /\ call[c].pc = "idle"
    /\ ret'.op = "downloadImage"
    /\ ret'.call = c
    /\ ret'.url = u
    /\ ret'.hit

\* C4: once a transfer of u has resolved, and while it is not more than 7 days
\* old, a downloadImage of u issues no HTTP request and resolves with the same
\* local path, the one the first call recorded (Spec has no clearCache and one
\* call at a time).
C4_SecondDownloadIsCacheHit ==
    [][\A c \in Calls, u \in URLs :
          RecentTransfer(u) =>
              /\ ~IssuesRequest(c, u)
              /\ ReturnsHit(c, u) =>
                    /\ ret'.settled = "resolved"
                    /\ ret'.value = getLocalPath(u)
                    /\ ret'.value = meta[u].localPath]_vars

\* a second call, under another id, is served from a transfer exactly 7 days old
C4_Witness ==
    /\ ret.op = "downloadImage"
    /\ ret.hit
    /\ meta[ret.url] # NoEntry
    /\ meta[ret.url].id # ret.id
    /\ now - lastTransfer[ret.url] = ClaimedLifetimeMs

CleanupRejections == {StreamMessage, WriteMessage, EmptyFileMessage}

\* C5: when downloadImage(u) rejects with a stream error, a write error or an
\* empty body, there is no file at getLocalPath(u) as the rejection is delivered.
C5_NoFileAfterFailedTransfer ==
    (/\ ret.op = "downloadImage"
     /\ ret.settled = "rejected"
     /\ ret.value \in CleanupRejections)
        => ~existsSync(file, getLocalPath(ret.url))

\* a stream error after bytes had been written
C5_Witness ==
    /\ ret.op = "downloadImage"
    /\ ret.settled = "rejected"
    /\ ret.value = StreamMessage
    /\ ret.wrote > 0
    /\ ~existsSync(file, getLocalPath(ret.url))

\* C6: when exists(u) returns true (as a call of its own or as the pre-check of
\* downloadImage), the file at getLocalPath(u) exists with size > 0 and the
\* metadata holds an entry of u whose downloadTime is at most 7 days old.
C6_ExistsImpliesValidEntry ==
    ((ret.op = "exists" /\ ret.value) \/ (ret.op = "downloadImage" /\ ret.hit)) =>
        LET localPath == getLocalPath(ret.url)
            entry == meta[ret.url]
        IN  /\ existsSync(file, localPath)
            /\ statSize(file, localPath) > 0
            /\ entry # NoEntry
            /\ entry.downloadTime \notin {NoTime, InvalidTime}
            /\ now - entry.downloadTime <= ClaimedLifetimeMs

\* exists returned true for an entry that is exactly 7 days old
C6_Witness ==
    /\ ret.op = "exists"
    /\ ret.value
    /\ now - meta[ret.url].downloadTime = ClaimedLifetimeMs

ZeroByteAt(u) ==
    /\ existsSync(file, getLocalPath(u))
    /\ statSize(file, getLocalPath(u)) = 0

\* C7: for a URL whose fingerprinted file has size 0, exists is false,
\* downloadImage is not a cache hit, getLocalImageUrl returns null and the
\* catalog fetch marks the URL as not local.
C7_ZeroByteFileIsNeverAHit ==
    [][\A u \in URLs :
          ZeroByteAt(u) =>
              /\ (ret'.op = "exists" /\ ret'.url = u) => ~ret'.value
              /\ (ret'.op = "downloadImage" /\ ret'.url = u) => ~ret'.hit
              /\ (ret'.op = "getLocalImageUrl" /\ ret'.url = u) => ret'.value = <<>>
              /\ ret'.op = "fetch-wallpapers" =>
                    \A i \in DOMAIN Catalog :
                        Catalog[i].imageUrl = u => ~ret'.value[i].isLocal]_vars

\* the file at the path of u is being written by a download that has not finished
PartialAt(u) ==
    \E c \in Calls :
        /\ call[c].pc = "piping"
        /\ call[c].url = u
        /\ existsSync(file, getLocalPath(u))
        /\ c \in file[getLocalPath(u)].writers

\* C8: while the file of u is being written, exists(u) is not true and no
\* caller obtains its path as a cached result.
C8_PartialFileIsNeverAHit ==
    \A u \in URLs :
        PartialAt(u) =>
            /\ (ret.op = "exists" /\ ret.url = u) => ~ret.value
            /\ (ret.op = "downloadImage" /\ ret.url = u) => ~ret.hit
            /\ (ret.op = "getLocalImageUrl" /\ ret.url = u) => ret.value = <<>>
            /\ ret.op = "fetch-wallpapers" =>
                  \A i \in DOMAIN Catalog :
                      Catalog[i].imageUrl = u => ~ret.value[i].isLocal

AgeOf(url) == now - meta[url].downloadTime

HasTimestamp(url) ==
    /\ meta[url] # NoEntry
    /\ meta[url].downloadTime \notin {NoTime, InvalidTime}

\* C9: isCacheExpired(u) is true exactly when there is no entry of u, or the
\* entry has no downloadTime, or now - downloadTime > 7 days: true at 7 days
\* + 1 second, false at 7 days - 1 second and at exactly 7 days.
C9_ExpiredExactlyAfterSevenDays ==
    ret.op = "isCacheExpired" =>
        LET u == ret.url
        IN  /\ ret.value <=> \/ meta[u] = NoEntry
                             \/ meta[u].downloadTime = NoTime
                             \/ HasTimestamp(u) /\ AgeOf(u) > ClaimedLifetimeMs
            /\ (HasTimestamp(u) /\ AgeOf(u) = ClaimedLifetimeMs + 1000) => ret.value
            /\ (HasTimestamp(u) /\ AgeOf(u) = ClaimedLifetimeMs - 1000) => ~ret.value
            /\ (HasTimestamp(u) /\ AgeOf(u) = ClaimedLifetimeMs) => ~ret.value

\* an entry aged 7 days + 1 second was found expired
C9_Witness ==
    /\ ret.op = "isCacheExpired"
    /\ ret.value
    /\ HasTimestamp(ret.url)
    /\ AgeOf(ret.url) = ClaimedLifetimeMs + 1000

\* C10: when exists(u) finds a zero-byte file, also when the metadata holds a
\* fresh entry of u, it returns false and the file is gone after the call.
C10_ExistsRemovesZeroByteFile ==
    [][\A u \in URLs :
          (ZeroByteAt(u) /\ ret'.op = "exists" /\ ret'.url = u) =>
              /\ ~ret'.value
              /\ ~existsSync(file', getLocalPath(u))]_vars

\* exists has removed an empty file whose metadata entry is fresh
C10_Witness ==
    /\ ret.op = "exists"
    /\ ret.log = "Removing empty cached file"
    /\ ~ret.value
    /\ HasTimestamp(ret.url)
    /\ ~isCacheExpired(ret.url)
    /\ ~existsSync(file, getLocalPath(ret.url))

(***************************************************************************)
(* Retention and metadata store properties.                                *)
(***************************************************************************)
Stored == readMetadata(meta, metaFile)

NonEmptyAt(u) ==
    /\ existsSync(file, getLocalPath(u))
    /\ statSize(file, getLocalPath(u)) > 0

FreshEntryWithoutFile(u) ==
    /\ Stored[u] # NoEntry
    /\ ~isCacheExpired(u)
    /\ ~existsSync(file, getLocalPath(u))

\* C12: while the metadata holds a fresh entry of u but the file of u is
\* missing, exists(u) returns false and a downloadImage(u) does not resolve
\* as a cache hit with the recorded path: it issues a request.
C12_FreshEntryWithoutFileIsAMiss ==
    [][\A u \in URLs :
          FreshEntryWithoutFile(u) =>
              /\ (ret'.op = "exists" /\ ret'.url = u) => ~ret'.value
              /\ \A c \in Calls : ~ReturnsHit(c, u)
              /\ \A c \in Calls :
                    (call[c].pc = "idle" /\ call'[c].pc # "idle" /\ call'[c].url = u)
                        => IssuesRequest(c, u)]_vars

\* a downloadImage of u has issued its request although the metadata holds a
\* fresh entry of u: the file of u was missing
C12_Witness ==
    \E c \in Calls :
        /\ call[c].pc = "requesting"
        /\ FreshEntryWithoutFile(call[c].url)
        /\ Stored[call[c].url].localPath = getLocalPath(call[c].url)

TransferResolved(r) ==
    /\ r.op = "downloadImage"
    /\ r.settled = "resolved"
    /\ ~r.hit

\* C14: when downloadImage(u, id) resolves after a transfer, the metadata maps
\* u to an entry with that id, the local path of u, the completion time, u as
\* original URL and the size of the written file, which is not zero; the
\* entries of the other URLs are as they were.
C14_ResolvedTransferIsRecorded ==
    [][TransferResolved(ret') =>
          LET u == ret'.url
              after == readMetadata(meta', metaFile')
          IN  /\ ret'.value = getLocalPath(u)
              /\ after[u] # NoEntry
              /\ after[u].id = ret'.id
              /\ after[u].localPath = getLocalPath(u)
              /\ after[u].downloadTime = now'
              /\ after[u].originalUrl = u
              /\ after[u].fileSize = statSize(file', getLocalPath(u))
              /\ after[u].fileSize > 0
              /\ \A v \in URLs \ {u} : after[v] = Stored[v]]_vars

\* a transfer has resolved and is recorded next to the entry of another URL
C14_Witness ==
    /\ TransferResolved(ret)
    /\ Stored[ret.url].id = ret.id
    /\ Stored[ret.url].downloadTime = now
    /\ Stored[ret.url].fileSize = MaxBody
    /\ now > 0
    /\ \E v \in URLs \ {ret.url} : Stored[v] # NoEntry

(***************************************************************************)
(* Metadata store under read and write failures, under SpecFaults.         *)
(***************************************************************************)
MetadataLost == metaFile.state # "ok"

WriteFailsAtCompletion == TransferResolved(ret') /\ metaFile.readOnly

\* what an exists(u) called right after the step returns
NextExistsValue(u) == existsValue(file', readMetadata(meta', metaFile'), now', u)

\* C16: if the metadata write fails after a successful transfer,
\* downloadImage resolves with the local path, the metadata is without the
\* update, and the next exists(u) is a miss.
C16_FailedWriteMakesAMiss ==
    [][WriteFailsAtCompletion =>
          /\ ret'.value = getLocalPath(ret'.url)
          /\ meta' = meta
          /\ ~NextExistsValue(ret'.url)]_vars

(***************************************************************************)
(* Cache administrator properties, under SpecAdmin.                        *)
(***************************************************************************)
ClearCacheReturned == ret.op = "clearCache" /\ ~ret.threw

EmptyAfterClear ==
    /\ Stored = EmptyMetadata
    /\ totalImages(file, meta, metaFile) = 0
    /\ \A u \in URLs : ~existsValue(file, Stored, now, u)

\* C17: when clearCache has returned, readMetadata yields the empty
\* mapping, getCacheStats counts 0 entries and exists(u) is false for every
\* URL.
C17_ClearCacheEmptiesTheCache ==
    ClearCacheReturned => EmptyAfterClear

\* C18: clearCache does not throw when files cannot be deleted: when it
\* returns, the files left in the cache directory are the skipped ones, every
\* other file it listed is deleted.
C18_ClearCacheSkipsUndeletable ==
    /\ (ret.op = "clearCache" /\ ret.skipped # {}) => ~ret.threw
    /\ ClearCacheReturned =>
          /\ readdirSync(file, metaFile) = ret.skipped
          /\ \A p \in (ret.listed \ ret.skipped) \cap Paths : ~existsSync(file, p)
          /\ (MetadataName \in ret.listed \ ret.skipped) => metaFile.state = "absent"

\* clearCache has returned with one file skipped and another one deleted
C18_Witness ==
    /\ ClearCacheReturned
    /\ ret.skipped # {}
    /\ ret.listed \ ret.skipped # {}
    /\ readdirSync(file, metaFile) = ret.skipped
    /\ \E p \in ret.skipped \cap Paths : statSize(file, p) > 0

ImageFiles == {p \in Paths : existsSync(file, p)}

\* the size of p as the byte total sees it: 0 when p is absent or cannot be stat'd
VisibleSize(p, unstatable) ==
    IF existsSync(file, p) /\ p \notin unstatable THEN statSize(file, p) ELSE 0

VisibleBytes(unstatable) ==
    VisibleSize(getLocalPath("u1"), unstatable) + VisibleSize(getLocalPath("u2"), unstatable)

\* C19: getCacheStats returns in every case; its entry count is the number
\* of files of the cache directory other than metadata.json, and its byte
\* total is the sum of the sizes of those files that can be stat'd.
C19_StatsCountFiles ==
    ret.op = "getCacheStats" =>
        /\ ret.value.totalImages = Cardinality(ImageFiles)
        /\ ret.value.cacheSize = VisibleBytes(ret.unstatable)

\* C19 amended: getCacheStats returns in every case; its entry count is the
\* number of entries readMetadata yields; its byte total is the sum of the
\* sizes of the files other than metadata.json that can be stat'd, and 0 when
\* the directory cannot be listed.
C19_StatsCountEntries ==
    ret.op = "getCacheStats" =>
        /\ ret.value.totalImages = Cardinality(Keys(Stored))
        /\ ret.listable => ret.value.cacheSize = VisibleBytes(ret.unstatable)
        /\ ~ret.listable => ret.value.cacheSize = 0

\* getCacheStats has returned while one file could not be stat'd: it counts
\* two entries and the bytes of the other file
C19_Witness ==
    /\ ret.op = "getCacheStats"
    /\ ret.unstatable # {}
    /\ Cardinality(ImageFiles) = 2
    /\ ret.value.totalImages = 2
    /\ ret.value.cacheSize > 0
    /\ ret.value.cacheSize < SumSizes(file, ImageFiles)

(***************************************************************************)
(* Pacing of the batch, under SpecBatch, where only the batch's timer      *)
(* moves the clock.                                                        *)
(***************************************************************************)
\* the pauses so far follow the items 1 .. k, one each
PausedAfterEachOf(k) ==
    /\ Len(batch.pauses) = k
    /\ \A i \in 1 .. k : batch.pauses[i] = i

\* C20: in a batchDownload over n >= 1 items that runs to its end, a pause of
\* one second follows the settlement of each of the first n-1 items and
\* precedes the start of the next item, none follows the last item: n-1
\* pauses in all.
C20_PausesBetweenItems ==
    LET n == Len(batch.items)
    IN  /\ (batch.pc = "awaiting") =>
              /\ PausedAfterEachOf(batch.idx - 1)
              /\ now = BatchDelayMs * (batch.idx - 1)
        /\ (batch.pc = "sleeping") =>
              /\ batch.completed < n
              /\ PausedAfterEachOf(batch.completed)
              /\ now = BatchDelayMs * (batch.completed - 1)
        /\ (batch.pc = "done" /\ n >= 1) =>
              /\ PausedAfterEachOf(n - 1)
              /\ now = BatchDelayMs * (n - 1)

\* a batch of MaxBatch items has returned after MaxBatch - 1 pauses
C20_Witness ==
    /\ batch.pc = "done"
    /\ Len(batch.items) = MaxBatch
    /\ Len(batch.pauses) = MaxBatch - 1
    /\ now = BatchDelayMs * (MaxBatch - 1)

BatchEnded == batch.pc \in {"done", "rejected"}

\* C21: a progress callback that throws does not abort batchDownload: the
\* batch ends by returning a result for every item of its list.
C21_CallbackThrowDoesNotAbort ==
    BatchEnded =>
        /\ batch.pc = "done"
        /\ Len(batch.results) = Len(batch.items)

\* C22: batchDownload terminates when every request responds, fails or
\* times out: as long as the batch has not ended, its download or its timer
\* has a step to take, so that it reaches its last item and returns.
C22_BatchAlwaysProceeds ==
    BatchRunning => ENABLED (DownloadStep(BatchCall) \/ BatchNext)

\* C23: a downloadImage whose file is removed while it is in flight still
\* settles, resolved or rejected: no handler of it ends in an exception that
\* nothing catches.
C23_DownloadAlwaysSettles ==
    ret.op = "downloadImage" => ret.settled \in {"resolved", "rejected"}

(***************************************************************************)
(* Catalog client properties, under SpecFetch.                             *)
(***************************************************************************)
FetchReturned == ret.op = "fetch-wallpapers"

StrictlyIncreasing(seq) ==
    \A i, j \in DOMAIN seq : i < j => seq[i] < seq[j]

\* C25: a downloadImage call issues at most one request: a call is at its
\* request only as the first thing after it starts, never again after a
\* failure.  Within a batch the items requested are each requested once, and
\* an item whose download failed has its failure as result and is left behind.
C25_NoAutomaticRetry ==
    [][/\ \A c \in Calls :
             (call'[c].pc = "requesting" /\ call[c] # call'[c]) => call[c].pc = "idle"
       /\ StrictlyIncreasing(batch'.requested)
       /\ \A k \in DOMAIN batch'.results :
             ~batch'.results[k].cached => batch'.idx >= k
       /\ (batch.pc = "awaiting" /\ ret'.op = "downloadImage"
               /\ ret'.settled = "rejected") =>
             /\ Len(batch'.results) = batch.idx
             /\ ~batch'.results[batch.idx].cached
             /\ batch'.requested = batch.requested]_vars

\* a batch has ended with a failed first item that was requested once, and
\* a later item that was requested too
C25_Witness ==
    /\ batch.pc = "done"
    /\ Len(batch.results) >= 2
    /\ ~batch.results[1].cached
    /\ Len(batch.requested) >= 2
    /\ batch.requested[1] = 1

InSeq(x, seq) == \E n \in DOMAIN seq : seq[n] = x

\* items i < j of the running batch name one URL under two ids, and item i
\* was transferred and cached
SameUrlTwice(i, j) ==
    /\ i < j
    /\ j \in DOMAIN batch.results
    /\ batch.items[i].imageUrl = batch.items[j].imageUrl
    /\ batch.items[i].id # batch.items[j].id
    /\ InSeq(i, batch.requested)
    /\ batch.results[i].cached

\* C26: when a batch names one URL under two ids and the first occurrence was
\* downloaded, the second is answered from the cache: its result is cached
\* with the first one's localPath, and no request was issued for it.
C26_SameUrlIsTransferredOnce ==
    \A i, j \in DOMAIN batch.results :
        SameUrlTwice(i, j) =>
            /\ batch.results[j].cached
            /\ batch.results[j].localPath = batch.results[i].localPath
            /\ batch.results[j].id = batch.items[j].id
            /\ ~InSeq(j, batch.requested)

\* a finished batch <<w1, w2, w3>>: w1 and w3 name u1, w1 was transferred
C26_Witness ==
    /\ batch.pc = "done"
    /\ Len(batch.results) = 3
    /\ batch.items[2].imageUrl # batch.items[1].imageUrl
    /\ SameUrlTwice(1, 3)
    /\ batch.results[3].localPath = getLocalPath(batch.items[1].imageUrl)

(***************************************************************************)
(* Wallpaper setter properties, under SpecSetWallpaper.                    *)
(***************************************************************************)
\* the URL the handler would download from
ChosenUrl(imageData) ==
    IF truthy(imageData.originalUrl) THEN imageData.originalUrl ELSE imageData.imageUrl

\* missing image data, a missing id, an empty or non-string URL, or a string
\* that is not a valid URL
InvalidInput(imageData) ==
    \/ ~imageData.given
    \/ imageData.id = ""
    \/ ~truthy(ChosenUrl(imageData))
    \/ ~isString(ChosenUrl(imageData))
    \/ trim(ChosenUrl(imageData)) = EmptyString
    \/ ~parsesAsURL(ChosenUrl(imageData))

\* C27: the set-wallpaper handler never rejects, and a call with missing
\* image data, a missing id, an empty or non-string URL or a malformed URL
\* has returned {success: false, error: <reason>} at once, having called
\* neither downloadImage nor the OS wallpaper setter.
C27_InvalidInputIsRefused ==
    /\ ~setCall.result.rejected
    /\ setCall.result.returned => (setCall.result.success <=> setCall.result.error = <<>>)
    /\ (setCall.invoked /\ InvalidInput(setCall.imageData)) =>
          /\ setCall.pc = "idle"
          /\ setCall.result.returned
          /\ ~setCall.result.success
          /\ setCall.result.error # <<>>
          /\ setCall.downloads = 0
          /\ setCall.setterCalls = 0

\* a call with a malformed URL has returned its failure after an earlier
\* download left a file in the cache
C27_Witness ==
    /\ setCall.invoked
    /\ setCall.imageData.given
    /\ setCall.imageData.id # ""
    /\ ChosenUrl(setCall.imageData) = Malformed
    /\ setCall.result.returned
    /\ setCall.result.error = UrlFormat(Malformed)
    /\ \E q \in Paths : existsSync(file, q)

(***************************************************************************)
(* Interleaved metadata mutations, under SpecInterleave.                   *)
(***************************************************************************)
\* the store lacks the entry of a download that resolved, though the entry
\* has not reached the age at which it is removed
LostUpdate(u) ==
    /\ lastTransfer[u] # NoTime
    /\ now - lastTransfer[u] <= ExpiryMs
    /\ \/ meta[u] = NoEntry
       \/ meta[u].downloadTime # lastTransfer[u]

\* the turn that is taken is about url: a download of it starts (its exists
\* check runs) or its writer finishes
TurnAbout(u) ==
    \/ \E c \in Calls : call[c].pc = "idle" /\ call'[c].pc = "requesting"
                           /\ call'[c].url = u
    \/ ret'.op = "downloadImage" /\ ret'.url = u

CachedLocally(u) ==
    /\ existsSync(file, getLocalPath(u))
    /\ statSize(file, getLocalPath(u)) > 0
    /\ file[getLocalPath(u)].writers = {}
    /\ meta[u] # NoEntry

\* C30: when the catalog request has failed on every attempt, the list that
\* fetch-wallpapers delivers still holds each wallpaper that is cached
\* locally.
C30_CachedWallpapersSurviveOffline ==
    (FetchReturned /\ ret.outcome = "failed") =>
        \A u \in URLs :
            CachedLocally(u) =>
                \E i \in DOMAIN ret.value : ret.value[i].originalUrl = u

(***************************************************************************)
(* Writes of the metadata store by downloadImage, under Spec.              *)
(***************************************************************************)
\* C32: a downloadImage call that rejects leaves the metadata store as it
\* is, and an entry is added or overwritten only by the turn in which a
\* transfer of its URL resolves, the file having passed the size check.
C32_RejectionWritesNoEntry ==
    [][/\ (ret'.op = "downloadImage" /\ ret'.settled = "rejected") =>
             /\ meta' = meta
             /\ metaFile' = metaFile
       /\ \A u \in URLs :
             (meta'[u] # meta[u] /\ meta'[u] # NoEntry) =>
                 /\ ret'.op = "downloadImage"
                 /\ ret'.settled = "resolved"
                 /\ ret'.url = u
                 /\ ~ret'.hit
                 /\ statSize(file, getLocalPath(u)) > 0
                 /\ meta'[u].fileSize > 0]_vars

\* a transfer that delivered nothing was rejected by the size check, and the
\* store has no entry for its URL, while it has one for another URL
C32_Witness ==
    /\ ret.op = "downloadImage"
    /\ ret.settled = "rejected"
    /\ ret.value = EmptyFileMessage
    /\ meta[ret.url] = NoEntry
    /\ \E u \in URLs : meta[u] # NoEntry

(***************************************************************************)
(* What the sweep leaves alone, under SpecSweep.                           *)
(***************************************************************************)
\* url has an entry that isCacheExpired does not take for expired
FreshEntry(u) == Stored[u] # NoEntry /\ ~isCacheExpiredAt(Stored, now, u)

\* C33: cleanupExpiredCache leaves every entry that is not expired, and the
\* file of its URL, as they were: after the call the URL has the same entry,
\* the same file, and exists(u) answers true if it did before.
C33_SweepKeepsTheFresh ==
    [][ret'.op = "cleanupExpiredCache" =>
          \A u \in URLs :
              FreshEntry(u) =>
                  /\ readMetadata(meta', metaFile')[u] = Stored[u]
                  /\ file'[getLocalPath(u)] = file[getLocalPath(u)]
                  /\ existsValue(file, Stored, now, u) =>
                        existsValue(file', readMetadata(meta', metaFile'), now', u)]_vars

\* a sweep has removed an expired entry, and a fresh URL is still a hit
C33_Witness ==
    /\ ret.op = "cleanupExpiredCache"
    /\ ret.removed # {}
    /\ \E u \in URLs :
          /\ FreshEntry(u)
          /\ HasTimestamp(u)
          /\ existsValue(file, Stored, now, u)

(***************************************************************************)
(* Cache hits, under Spec.                                                 *)
(***************************************************************************)
\* C34: a downloadImage call that is a cache hit changes nothing: the files
\* of the cache directory and the metadata store are as before, so the entry
\* keeps the id and the downloadTime of the call that transferred the file.
C34_CacheHitChangesNothing ==
    [][(ret'.op = "downloadImage" /\ ret'.hit) =>
          /\ file' = file
          /\ meta' = meta
          /\ metaFile' = metaFile
          /\ lastTransfer' = lastTransfer
          /\ meta'[ret'.url] # NoEntry
          /\ meta'[ret'.url].downloadTime = lastTransfer[ret'.url]]_vars

\* a hit under another id, some time after the transfer: the entry still has
\* the first id and the time of the transfer
C34_Witness ==
    /\ ret.op = "downloadImage"
    /\ ret.hit
    /\ meta[ret.url] # NoEntry
    /\ meta[ret.url].id # ret.id
    /\ meta[ret.url].downloadTime < now

(***************************************************************************)
(* Shape of the stored entries, under SpecAdmin.                           *)
(***************************************************************************)
\* C35: in every state reached by downloads, exists checks, sweeps and
\* clears, the entry stored under u has localPath = getLocalPath(u),
\* originalUrl = u and a fileSize above 0.
C35_EntriesAreWellFormed ==
    \A u \in Keys(Stored) :
        /\ Stored[u].localPath = getLocalPath(u)
        /\ Stored[u].originalUrl = u
        /\ Stored[u].fileSize > 0

\* both URLs have entries, of different sizes, one written after a week
C35_Witness ==
    /\ Keys(Stored) = URLs
    /\ \E u, v \in URLs :
          /\ Stored[u].fileSize < Stored[v].fileSize
          /\ Stored[u].downloadTime < Stored[v].downloadTime

(***************************************************************************)
(* The file handed to the OS wallpaper setter, under SpecSetWallpaper.     *)
(***************************************************************************)
\* C36: the turn of the set-wallpaper handler that calls the OS wallpaper
\* setter has found the file of the path it passes to exist with more than 0
\* bytes, and the handler returns success: true only when that setter call
\* completed without error.
C36_SetterGetsACheckedFile ==
    [][/\ setCall'.setterCalls > setCall.setterCalls =>
             /\ setCall'.pc = "setting"
             /\ setCall'.setterCalls = 1
             /\ setCall'.imagePath \in Paths
             /\ existsSync(file', setCall'.imagePath)
             /\ statSize(file', setCall'.imagePath) > 0
       /\ setCall'.result.success =>
             /\ setCall'.setterOutcome = "ok"
             /\ setCall'.setterCalls = 1
             /\ setCall'.result.imagePath = setCall'.imagePath
       /\ setCall'.setterOutcome = "error" =>
             /\ setCall'.result.returned
             /\ ~setCall'.result.success
             /\ setCall'.result.error = SetterFailed]_vars

\* the handler has returned success for an isLocal wallpaper whose cached
\* file it used without a download, while an empty file of another URL lies
\* in the cache
C36_Witness ==
    /\ setCall.result.success
    /\ setCall.imageData.isLocal
    /\ setCall.downloads = 0
    /\ statSize(file, setCall.result.imagePath) > 0
    /\ \E q \in Paths : existsSync(file, q) /\ statSize(file, q) = 0

(***************************************************************************)
(* The onboarding tour, under SpecTour.                                    *)
(***************************************************************************)
\* C31: once the user has completed or skipped the tour, it is on screen
\* again only when F1 opened it: no update of the wallpaper list, in this
\* session or a later one, shows it automatically.
C31_TourShownOnceAutomatically ==
    (app.dismissed /\ tourMounted(app) /\ app.isVisible) => app.shownBy = "F1"

(***************************************************************************)
(* The carousel, under SpecNavigate.                                       *)
(***************************************************************************)
MoveTo(direction, from, to) ==
    /\ viewer.trail # <<>>
    /\ viewer.trail[Len(viewer.trail)] = <<direction, from>>
    /\ viewer.currentIndex = to

C37_OneRequestPerWallpaper ==
    viewer.autoSetWallpaper => viewer.autoCount <= 1

(***************************************************************************)
(* Preloading, under SpecPreload.                                          *)
(***************************************************************************)
\* C38: while no load of the image has succeeded and the retry button was
\* not used, preloading has started at most maxRetries + 1 loads of it,
\* and at most one load of it is in progress.
C38_PreloadGivesUp ==
    ~viewer.succeeded /\ ~viewer.retried =>
        /\ viewer.attempts <= maxRetries + 1
        /\ Len(viewer.loads) <= 1

====
